---- MODULE Spec2Model ----
(***************************************************************************)
(* A model of the chat orchestrator of backend/app: the tool catalog       *)
(* (services/chat.py, services/preconfigured_mcp_config.py,                *)
(* api/v1/mcp_configs.py, services/mcp_config.py), the stream              *)
(* reconstructor (_generate_litellm_response), the tool executor           *)
(* (handle_tool_call) and the turn (handle_chat_request).                  *)
(*                                                                         *)
(* Python strings are sequences of one-character strings, so that          *)
(* endswith, slicing, split and concatenation are computed, not assumed.   *)
(***************************************************************************)
EXTENDS Integers, Sequences, FiniteSets, TLC

VARIABLES
    mcp_configs,      \* rows of mcp_configs: [id, user]
    mcp_tools,        \* rows of mcp_tools: [id, config, code, name]
    pre_configs,      \* rows of preconfigured_mcp_configs: [id, user, code, enabled]
    toggle,           \* the toggle_preconfigured requests in flight
    catalog,          \* all_mcp_tools of the last generate_chat_response
    update_result,    \* what the last update_tools returned, and for which server
    tools_sent,       \* whether args["tools"] was set for the last completion
    gpc,              \* where _generate_litellm_response stands
    unfinished_call,  \* its local unfinished_call
    revents,          \* the StreamEvents it has yielded, in order
    nchunks,          \* the number of chunks the provider has delivered
    calls,            \* the tool calls the provider has started: name and text sent
    cur_doc,          \* the argument text the provider is sending for the last call
    provider_names,   \* the function names the provider may send
    stream_end,       \* how the provider's stream ended: "no", "exhausted" or "error"
    conversation,     \* the conversation of the requests: [exists, title]
    messages,         \* its messages in creation order: [role, content, tool_use]
    net,              \* tool-server traffic of the request: sessions opened, call_tool issued
    out,              \* the events the request has sent to its caller, in order
    turn,             \* the locals of handle_chat_request and its event_generator
    conversations,    \* rows of conversations: [id, user_id]
    conversation_log, \* the calls of the conversation service made so far
    decisions         \* requests with a tool decision that run side by side: their locals

catalogVars == <<mcp_configs, mcp_tools, pre_configs, toggle, catalog, tools_sent, update_result>>

streamVars ==
    <<gpc, unfinished_call, revents, nchunks, calls, cur_doc, provider_names, stream_end>>

turnVars == <<conversation, messages, net, out, turn>>

conversationVars == <<conversations, conversation_log>>

vars == <<mcp_configs, mcp_tools, pre_configs, toggle, catalog, tools_sent, update_result,
          gpc, unfinished_call, revents, nchunks, calls, cur_doc, provider_names,
          stream_end, conversation, messages, net, out, turn,
          conversations, conversation_log, decisions>>

----------------------------------------------------------------------------
(* Bounds of the model *)

MaxConfigs == 2
MaxTools == 3
MaxPreRows == 3
MaxListed == 2
MaxChunks == 3
MaxCalls == 2
MaxTurns == 2
MaxTurnChunks == 2
MaxConversations == 4

----------------------------------------------------------------------------
(* Strings *)

\* Python's None where a string may stand: no string is this sequence.
None == <<"None">>

fetch == <<"f", "e", "t", "c", "h">>

sequentialthinking ==
    <<"s", "e", "q", "u", "e", "n", "t", "i", "a", "l",
      "t", "h", "i", "n", "k", "i", "n", "g">>

Sep == <<"_", "_">>

EndsWith(s, suffix) ==
    /\ Len(s) >= Len(suffix)
    /\ SubSeq(s, Len(s) - Len(suffix) + 1, Len(s)) = suffix

StartsWith(s, prefix) ==
    /\ Len(s) >= Len(prefix)
    /\ SubSeq(s, 1, Len(prefix)) = prefix

\* The least index at which sep occurs in s, 0 when it does not (str.find + 1).
Find(s, sep) ==
    LET at == {i \in 1..Len(s) : StartsWith(SubSeq(s, i, Len(s)), sep)}
    IN  IF at = {} THEN 0 ELSE CHOOSE i \in at : \A j \in at : i <= j

RECURSIVE Split(_, _)
\* str.split(sep): the pieces of s between the occurrences of sep, left to right.
Split(s, sep) ==
    LET i == Find(s, sep)
    IN  IF i = 0
        THEN <<s>>
        ELSE <<SubSeq(s, 1, i - 1)>> \o Split(SubSeq(s, i + Len(sep), Len(s)), sep)

----------------------------------------------------------------------------
(* Call codes: services/chat.py *)

user_code_appends_p(code) == code \o <<"_", "p">>

user_code(code) == code \o <<"_", "u">>

preconfigured_code(code) == code \o <<"_", "p">>

is_user_call_code_any_u(name) == Len(name) >= 1 /\ name[Len(name)] \in {"u", "p"}

is_user_call_code(name) == EndsWith(name, <<"_", "u">>)

is_preconfigured_call_code(name) == EndsWith(name, <<"_", "p">>)

remove_call_code_suffix_one(name) ==
    IF Len(name) >= 1 THEN SubSeq(name, 1, Len(name) - 1) ELSE <<>>

\* name[0:-2]
remove_call_code_suffix(name) ==
    IF Len(name) >= 2 THEN SubSeq(name, 1, Len(name) - 2) ELSE <<>>

----------------------------------------------------------------------------
(* The stored rows *)

\* The user whose requests are followed, and another user of the same database.
Me == "me"

Other == "other"

Reqs == {1, 2}

\* Names a tool server lists for its tools (result.tools of list_tools).
ToolNames == {<<"g">>}

\* Stored short codes of private tools.
ToolCodes == {<<"a", "b", "1", "2">>, <<"k", "_", "p">>, fetch}

\* Codes a caller may put in the path of /preconfigured/{code}/toggle.
PreCodes == {fetch, <<"z">>}

RECURSIVE SortById(_)
\* The rows of S as a list, by id: the order a relationship is loaded in.
SortById(S) ==
    IF S = {} THEN <<>>
    ELSE LET r == CHOOSE x \in S : \A y \in S : x.id <= y.id
         IN  <<r>> \o SortById(S \ {r})

FreeId(S, max) ==
    CHOOSE i \in 1..(max + 1) : (i \notin {r.id : r \in S}) /\ (\A j \in 1..(i - 1) : j \in {r.id : r \in S})

RECURSIVE SeqsUpTo(_, _)
SeqsUpTo(S, n) ==
    IF n = 0 THEN {<<>>}
    ELSE LET shorter == SeqsUpTo(S, n - 1)
         IN  shorter \cup {Append(q, x) : q \in {t \in shorter : Len(t) = n - 1}, x \in S}

----------------------------------------------------------------------------
(* JSON text: json.loads on the buffered argument text *)

Q == "\""

\* A JSON string: a quote, characters other than the quote, a quote.
IsJsonString(t) ==
    /\ Len(t) >= 2
    /\ t[1] = Q
    /\ t[Len(t)] = Q
    /\ \A i \in 2..(Len(t) - 1) : t[i] # Q

JsonError == [ok |-> FALSE]

\* A value that is no object: a string, the number 1 or null.
json_scalar(t) ==
    IF IsJsonString(t)
    THEN [ok |-> TRUE, type |-> "string", value |-> SubSeq(t, 2, Len(t) - 1)]
    ELSE IF t = <<"1">> THEN [ok |-> TRUE, type |-> "number", value |-> <<"1">>]
    ELSE IF t = <<"n", "u", "l", "l">> THEN [ok |-> TRUE, type |-> "null", value |-> <<>>]
    ELSE JsonError

\* The member "key":value of an object with one member.
json_member(t) ==
    LET close == {i \in 2..Len(t) : t[i] = Q}
        k == IF close = {} THEN 0 ELSE CHOOSE i \in close : \A j \in close : i <= j
        v == json_scalar(SubSeq(t, k + 2, Len(t)))
    IN  IF Len(t) >= 1 /\ t[1] = Q /\ k # 0 /\ Len(t) >= k + 1 /\ t[k + 1] = ":" /\ v.ok
        THEN [ok |-> TRUE, key |-> SubSeq(t, 2, k - 1), value |-> [type |-> v.type, value |-> v.value]]
        ELSE JsonError

\* json.loads of texts over the characters the provider sends here (no comma, no
\* space): a scalar, {} or an object with one member; anything else does not parse.
json_loads(t) ==
    IF Len(t) >= 2 /\ t[1] = "{" /\ t[Len(t)] = "}"
    THEN IF Len(t) = 2
         THEN [ok |-> TRUE, type |-> "dict", value |-> <<>>]
         ELSE LET m == json_member(SubSeq(t, 2, Len(t) - 1))
              IN  IF m.ok
                  THEN [ok |-> TRUE, type |-> "dict", value |-> <<[key |-> m.key, value |-> m.value]>>]
                  ELSE JsonError
    ELSE json_scalar(t)

----------------------------------------------------------------------------
(* The stream reconstructor: _generate_litellm_response *)

NoCall == [open |-> FALSE]

StreamIdle ==
    /\ gpc = "idle"
    /\ unfinished_call = NoCall
    /\ revents = <<>>
    /\ nchunks = 0
    /\ calls = <<>>
    /\ cur_doc = <<>>
    /\ provider_names = {}
    /\ stream_end = "no"

\* Argument texts a provider may be sending: {"url":"h"} (h for http://x), {},
\* null, 1 and the empty text.  A call may stop before its text is complete.
ArgTexts ==
    { <<"{", Q, "u", "r", "l", Q, ":", Q, "h", Q, "}">>,
      <<"{", "}">>,
      <<"n", "u", "l", "l">>,
      <<"1">>,
      <<>> }

\* Function names a provider may send; the empty name stands for no name.
CallNames ==
    { fetch \o <<"_", "u">>,
      fetch \o Sep \o fetch \o <<"_", "p">>,
      <<"z", "_", "p">>,
      <<"z", "z">> }

TextDeltas == {<<>>, <<"t">>}

ApiErrorMessage == <<"e", "r", "r">>

SkipChunk == [choices |-> FALSE]

NoToolCalls == [present |-> FALSE]

NoFunction == [present |-> FALSE]

ToolChunk(id, function, content) ==
    [choices |-> TRUE, tool_calls |-> [present |-> TRUE, id |-> id, function |-> function],
     content |-> content]

TextChunk(content) == [choices |-> TRUE, tool_calls |-> NoToolCalls, content |-> content]

Function(name, arguments) == [present |-> TRUE, name |-> name, arguments |-> arguments]

\* What the provider may deliver next.  A call-start chunk carries an id and begins
\* the text of one of ArgTexts at any boundary; a later chunk of the call carries no
\* id and the next piece of that text.
StartChunks(d) ==
    {ToolChunk(TRUE, NoFunction, None)} \cup
    {ToolChunk(TRUE, Function(name, SubSeq(d, 1, k)), content) :
        name \in provider_names \cup {<<>>}, k \in 0..Len(d), content \in {None, <<"t">>}}

Sent == IF calls = <<>> THEN 0 ELSE Len(calls[Len(calls)].text)

ContinuationChunks ==
    {ToolChunk(FALSE, NoFunction, None)} \cup
    {ToolChunk(FALSE, Function(<<>>, SubSeq(cur_doc, Sent + 1, k)), None) :
        k \in (Sent + 1)..Len(cur_doc)}

\* The record of the calls the provider has started, after chunk c of text d.
CallsAfter(c, d) ==
    IF ~c.choices \/ ~c.tool_calls.present THEN calls
    ELSE LET f == c.tool_calls.function
             name == IF f.present THEN f.name ELSE <<>>
             text == IF f.present THEN f.arguments ELSE <<>>
             piece == IF text = <<>> THEN 0 ELSE 1
         IN  IF c.tool_calls.id
             THEN Append(calls, [name |-> name, text |-> text, pieces |-> piece])
             ELSE IF calls = <<>> THEN calls
             ELSE [calls EXCEPT ![Len(calls)] =
                      [name |-> IF name # <<>> THEN name ELSE @.name, text |-> @.text \o text,
                       pieces |-> @.pieces + piece]]

Event(event, data) == [event |-> event, data |-> data]

Flush_empty_arguments_on_error(call) ==
    LET parsed == json_loads(call.arguments)
    IN  IF ~parsed.ok
        THEN [raised |-> "no",
              events |-> <<Event("function_call",
                                 [name |-> call.name,
                                  arguments |-> [type |-> "dict", value |-> <<>>]])>>]
        ELSE IF parsed.type \notin {"dict", "null"}
        THEN [raised |-> "ValidationError", events |-> <<>>]
        ELSE [raised |-> "no",
              events |-> <<Event("function_call",
                                 [name |-> call.name,
                                  arguments |-> [type |-> parsed.type, value |-> parsed.value]])>>]

Flush_no_text_as_null(call) ==
    LET parsed == IF call.arguments = <<>>
                  THEN [ok |-> TRUE, type |-> "null", value |-> <<>>]
                  ELSE json_loads(call.arguments)
    IN  IF ~parsed.ok THEN [raised |-> "JSONDecodeError", events |-> <<>>]
        ELSE IF parsed.type \notin {"dict", "null"}
        THEN [raised |-> "ValidationError", events |-> <<>>]
        ELSE [raised |-> "no",
              events |-> <<Event("function_call",
                                 [name |-> call.name,
                                  arguments |-> [type |-> parsed.type, value |-> parsed.value]])>>]

\* FunctionCall(name=..., arguments=json.loads(...)) and the StreamEvent built from
\* it: the outcome of flushing a buffered call.
Flush(call) ==
    LET parsed == json_loads(call.arguments)
    IN  IF ~parsed.ok THEN [raised |-> "JSONDecodeError", events |-> <<>>]
        ELSE IF parsed.type \notin {"dict", "null"}
        THEN [raised |-> "ValidationError", events |-> <<>>]
        ELSE [raised |-> "no",
              events |-> <<Event("function_call",
                                 [name |-> call.name,
                                  arguments |-> [type |-> parsed.type, value |-> parsed.value]])>>]

NoFlush == [raised |-> "no", events |-> <<>>]

AccumulateOverwrite(call, function) ==
    [call EXCEPT !.name = IF function.name # <<>> THEN function.name ELSE @,
                 !.arguments = function.arguments]

\* unfinished_call["name"] = function_call.name (when set);
\* unfinished_call["arguments"] += function_call.arguments or ""
Accumulate(call, function) ==
    [call EXCEPT !.name = IF function.name # <<>> THEN function.name ELSE @,
                 !.arguments = @ \o function.arguments]

NewCallKeepsBuffer(call) ==
    IF call.open THEN call ELSE [open |-> TRUE, name |-> <<>>, arguments |-> <<>>]

\* unfinished_call = {"name": "", "arguments": ""}
NewCall(call) == [open |-> TRUE, name |-> <<>>, arguments |-> <<>>]

\* One pass of the loop body over a chunk: the events yielded, the exception
\* raised if any, and the buffer afterwards.
ReadChunk(call, c) ==
    IF ~c.choices THEN [raised |-> "no", events |-> <<>>, call |-> call]
    ELSE
    LET tc == c.tool_calls
        starts == tc.present /\ tc.id
        flushed == IF starts /\ call.open THEN Flush(call) ELSE NoFlush
        opened == IF starts THEN NewCall(call) ELSE call
        missing == tc.present /\ tc.function.present /\ ~opened.open
        buffered == IF tc.present /\ tc.function.present /\ opened.open
                    THEN Accumulate(opened, tc.function) ELSE opened
        text == IF c.content # None THEN <<Event("text", c.content)>> ELSE <<>>
    IN  IF flushed.raised # "no"
        THEN [raised |-> flushed.raised, events |-> <<>>, call |-> call]
        ELSE IF missing
        THEN [raised |-> "ValueError", events |-> flushed.events, call |-> opened]
        ELSE [raised |-> "no", events |-> flushed.events \o text, call |-> buffered]

\* The generator is created by generate_chat_response and runs from its first
\* line when the caller first iterates it.
G_Create ==
    /\ gpc' = "created"
    /\ unfinished_call' = NoCall
    /\ revents' = <<>>
    /\ nchunks' = 0
    /\ calls' = <<>>
    /\ cur_doc' = <<>>
    /\ stream_end' = "no"
    /\ UNCHANGED provider_names

\* await acompletion(**args): the stream, or the exception it raises.
G_Open(outcome) ==
    /\ gpc = "created"
    /\ unfinished_call' = NoCall
    /\ CASE outcome = "stream" -> gpc' = "reading" /\ revents' = revents
         [] outcome = "AuthenticationError" ->
                gpc' = "finished" /\ revents' = Append(revents, Event("auth_error", <<>>))
         [] outcome = "APIStatusError" ->
                gpc' = "finished" /\ revents' = Append(revents, Event("api_error", ApiErrorMessage))
         [] OTHER -> gpc' = "raised" /\ revents' = revents
    /\ stream_end' = IF outcome = "stream" THEN "no" ELSE "error"
    /\ UNCHANGED <<nchunks, calls, cur_doc, provider_names>>

\* async for chunk in stream: one chunk.
G_Chunk(c, d) ==
    /\ gpc = "reading"
    /\ nchunks < MaxChunks
    /\ LET r == ReadChunk(unfinished_call, c)
       IN  /\ revents' = revents \o r.events
           /\ unfinished_call' = r.call
           /\ gpc' = IF r.raised = "no" THEN "reading" ELSE "raised"
    /\ nchunks' = nchunks + 1
    /\ calls' = CallsAfter(c, d)
    /\ Len(calls') <= MaxCalls
    /\ cur_doc' = d
    /\ UNCHANGED <<provider_names, stream_end>>

G_StreamError_goes_on(outcome) ==
    /\ gpc = "reading"
    /\ CASE outcome = "AuthenticationError" ->
                gpc' = "reading" /\ revents' = Append(revents, Event("auth_error", <<>>))
         [] outcome = "APIStatusError" ->
                gpc' = "reading" /\ revents' = Append(revents, Event("api_error", ApiErrorMessage))
         [] OTHER -> gpc' = "raised" /\ revents' = revents
    /\ stream_end' = "no"
    /\ UNCHANGED <<unfinished_call, nchunks, calls, cur_doc, provider_names>>

\* The stream raises while it is read.
G_StreamError(outcome) ==
    /\ gpc = "reading"
    /\ CASE outcome = "AuthenticationError" ->
                gpc' = "finished" /\ revents' = Append(revents, Event("auth_error", <<>>))
         [] outcome = "APIStatusError" ->
                gpc' = "finished" /\ revents' = Append(revents, Event("api_error", ApiErrorMessage))
         [] OTHER -> gpc' = "raised" /\ revents' = revents
    /\ stream_end' = "error"
    /\ UNCHANGED <<unfinished_call, nchunks, calls, cur_doc, provider_names>>

\* The stream ends: the flush after the loop.
G_End ==
    /\ gpc = "reading"
    /\ LET r == IF unfinished_call.open /\ unfinished_call.name # <<>>
                THEN Flush(unfinished_call) ELSE NoFlush
       IN  /\ revents' = revents \o r.events
           /\ gpc' = IF r.raised = "no" THEN "finished" ELSE "raised"
           /\ unfinished_call' = IF r.raised = "no" /\ r.events # <<>> THEN NoCall
                                 ELSE unfinished_call
    /\ stream_end' = "exhausted"
    /\ UNCHANGED <<nchunks, calls, cur_doc, provider_names>>

\* The events the generator yields on a step.
NewEvents == SubSeq(revents', Len(revents) + 1, Len(revents'))

OpenOutcomes == {"stream", "AuthenticationError", "APIStatusError", "Exception"}

StreamErrors == {"AuthenticationError", "APIStatusError", "Exception"}

\* The steps of the provider and the generator, for the callers below.
G_TextChunk == \E content \in TextDeltas : G_Chunk(TextChunk(content), cur_doc)

G_SkipChunk == G_Chunk(SkipChunk, cur_doc)

G_StartChunk ==
    \E d \in ArgTexts : \E c \in StartChunks(d) : G_Chunk(c, d)

G_ContinuationChunk == \E c \in ContinuationChunks : G_Chunk(c, cur_doc)

----------------------------------------------------------------------------
(* Private tool servers: services/mcp_config.py *)

uq_tool_code_unchecked(rows) == TRUE

\* UniqueConstraint("code", name="uq_tool_code") of mcp_tools.
uq_tool_code(rows) ==
    \A i \in 1..Len(rows) : \A j \in 1..Len(rows) : rows[i].code = rows[j].code => i = j

RECURSIVE NewToolRows(_, _, _, _)
\* The MCPTool rows update_tools adds for the listed tools, in list order.
NewToolRows(kept, cfg, listed, codes) ==
    IF listed = <<>> THEN <<>>
    ELSE LET row == [id |-> FreeId(kept, MaxTools + MaxListed), config |-> cfg,
                     code |-> Head(codes), name |-> Head(listed)]
         IN  <<row>> \o NewToolRows(kept \cup {row}, cfg, Tail(listed), Tail(codes))

update_tools_deletes_first(rows, cfg, listed, codes, reachable) ==
    LET kept == {t \in rows : t.config # cfg}
        added == NewToolRows(kept, cfg, listed, codes)
        after == SortById(kept) \o added
    IN  IF ~reachable THEN [result |-> "Err", rows |-> kept]
        ELSE IF uq_tool_code(after)
             THEN [result |-> "Ok", rows |-> kept \cup {added[i] : i \in 1..Len(added)}]
             ELSE [result |-> "IntegrityError", rows |-> rows]

\* update_tools: the outcome on the table mcp_tools.  reachable is whether the
\* session to the server could be opened and the tools listed.
update_tools(rows, cfg, listed, codes, reachable) ==
    IF ~reachable
    THEN [result |-> "Err", rows |-> rows]
    ELSE LET kept == {t \in rows : t.config # cfg}
             added == NewToolRows(kept, cfg, listed, codes)
             after == SortById(kept) \o added
         IN  IF uq_tool_code(after)
             THEN [result |-> "Ok", rows |-> kept \cup {added[i] : i \in 1..Len(added)}]
             ELSE [result |-> "IntegrityError", rows |-> rows]

ListedChoices == SeqsUpTo(ToolNames, MaxListed)

CodeChoices(n) == {c \in SeqsUpTo(ToolCodes, MaxListed) : Len(c) = n}

NoUpdate == [result |-> "none", config |-> 0]

NoCatalog == [tool_calling |-> FALSE, entries |-> <<>>, fresh |-> FALSE]

\* all_mcp_tools is a local of one generate_chat_response: it does not outlive a
\* change of the rows it was built from.
StaleCatalog == NoCatalog

create_mcp_config(u, listed, codes, reachable) ==
    /\ Cardinality(mcp_configs) < MaxConfigs
    /\ LET cfg == FreeId(mcp_configs, MaxConfigs)
           res == update_tools(mcp_tools, cfg, listed, codes, reachable)
       IN  /\ Cardinality(res.rows) <= MaxTools
           /\ IF res.result = "Ok"
              THEN /\ mcp_configs' = mcp_configs \cup {[id |-> cfg, user |-> u]}
                   /\ mcp_tools' = res.rows
              ELSE UNCHANGED <<mcp_configs, mcp_tools>>
           /\ update_result' = [result |-> res.result, config |-> cfg]
    /\ catalog' = StaleCatalog
    /\ tools_sent' = FALSE
    /\ UNCHANGED <<pre_configs, toggle>>
    /\ UNCHANGED <<streamVars, turnVars, conversationVars, decisions>>

\* ForeignKey("mcp_tools.id", ondelete="SET NULL") of mcp_tool_uses.tool_id: the
\* messages after the rows with these ids were deleted.
ondelete_set_null(msgs, ids) ==
    [i \in 1..Len(msgs) |->
        IF msgs[i].tool_use.present /\ msgs[i].tool_use.tool \in ids
        THEN [msgs[i] EXCEPT !.tool_use.tool = 0]
        ELSE msgs[i]]

\* update_mcp_config: update_tools deletes the rows of the server and adds rows
\* with ids of their own for the listed tools.
update_mcp_config(cfg, listed, codes, reachable) ==
    /\ cfg \in {c.id : c \in mcp_configs}
    /\ LET res == update_tools(mcp_tools, cfg, listed, codes, reachable)
           deleted == IF res.result = "Ok"
                      THEN {t.id : t \in {x \in mcp_tools : x.config = cfg}}
                      ELSE {}
       IN  /\ Cardinality(res.rows) <= MaxTools
           /\ mcp_tools' = res.rows
           /\ messages' = ondelete_set_null(messages, deleted)
           /\ update_result' = [result |-> res.result, config |-> cfg]
    /\ catalog' = StaleCatalog
    /\ tools_sent' = FALSE
    /\ UNCHANGED <<mcp_configs, pre_configs, toggle>>
    /\ UNCHANGED <<conversation, net, out, turn>>
    /\ UNCHANGED <<streamVars, conversationVars, decisions>>

----------------------------------------------------------------------------
(* Preconfigured tool servers *)

shape_name(config, name, should_prefix) ==
    IF should_prefix THEN config.code \o Sep \o name ELSE name

\* get_preconfigured_tools: the names of the built-in tools of a server.
get_preconfigured_tools(config, should_prefix) ==
    IF config.code = fetch
    THEN <<shape_name(config, fetch, should_prefix)>>
    ELSE IF config.code = sequentialthinking
         THEN <<shape_name(config, sequentialthinking, should_prefix)>>
         ELSE <<>>

IdleToggle == [pc |-> "idle", user |-> Me, code |-> fetch, enabled |-> FALSE, found |-> 0]

\* toggle_preconfigured up to the end of get_preconfigured_config_by_code_and_user_id:
\* .first() of an unordered query is any of the matching rows.
ToggleLookup(r, u, code, enabled) ==
    /\ toggle[r].pc = "idle"
    /\ LET matching == {c \in pre_configs : c.code = code /\ c.user = u}
       IN  \E found \in (IF matching = {} THEN {0} ELSE {c.id : c \in matching}) :
               toggle' = [toggle EXCEPT ![r] =
                   [pc |-> "looked", user |-> u, code |-> code, enabled |-> enabled,
                    found |-> found]]
    /\ UNCHANGED <<mcp_configs, mcp_tools, pre_configs, catalog, tools_sent, update_result>>
    /\ UNCHANGED <<streamVars, turnVars, conversationVars, decisions>>

\* The rest of toggle_preconfigured: create_preconfigured_config when no row was
\* found, config.enabled = toggle_data.enabled, commit.  The refresh of the cached
\* tool list of an enabled row changes no column the catalog reads.
ToggleApply(r) ==
    /\ toggle[r].pc = "looked"
    /\ IF toggle[r].found = 0
       THEN /\ Cardinality(pre_configs) < MaxPreRows
            /\ pre_configs' = pre_configs \cup
                   {[id |-> FreeId(pre_configs, MaxPreRows), user |-> toggle[r].user,
                     code |-> toggle[r].code, enabled |-> toggle[r].enabled]}
       ELSE pre_configs' =
                {IF c.id = toggle[r].found THEN [c EXCEPT !.enabled = toggle[r].enabled] ELSE c
                    : c \in pre_configs}
    /\ toggle' = [toggle EXCEPT ![r] = IdleToggle]
    /\ catalog' = StaleCatalog
    /\ tools_sent' = FALSE
    /\ UNCHANGED <<mcp_configs, mcp_tools, update_result>>
    /\ UNCHANGED <<streamVars, turnVars, conversationVars, decisions>>

----------------------------------------------------------------------------
(* The merged catalog: generate_chat_response *)

RECURSIVE Concat(_)
Concat(seqs) == IF seqs = <<>> THEN <<>> ELSE Head(seqs) \o Concat(Tail(seqs))

Map1(f(_), s) == [i \in 1..Len(s) |-> f(s[i])]

UserEntry(tool) ==
    [name |-> user_code(tool.code), origin |-> "user", code |-> tool.code, row |-> tool.id]

PreEntry(config, shape) ==
    [name |-> preconfigured_code(shape), origin |-> "preconfigured", code |-> shape,
     row |-> config.id]

UserTools(config) == SortById({t \in mcp_tools : t.config = config.id})

UserConfigs(u) == SortById({c \in mcp_configs : c.user = u})

PreConfigs(u) == SortById({c \in pre_configs : c.user = u})

UserEntries(config) == LET E(t) == UserEntry(t) IN Map1(E, UserTools(config))

PreEntries_ignoring_enabled(config) ==
    LET E(s) == PreEntry(config, s) IN Map1(E, get_preconfigured_tools(config, TRUE))

PreEntries(config) ==
    IF ~config.enabled THEN <<>>
    ELSE LET E(s) == PreEntry(config, s) IN Map1(E, get_preconfigured_tools(config, TRUE))

\* all_mcp_tools of generate_chat_response
all_mcp_tools_whatever_flag(u, tool_calling) ==
    LET U(c) == UserEntries(c)
        P(c) == PreEntries(c)
    IN  Concat(Map1(U, UserConfigs(u))) \o Concat(Map1(P, PreConfigs(u)))

all_mcp_tools(u, tool_calling) ==
    IF ~tool_calling THEN <<>>
    ELSE LET U(c) == UserEntries(c)
             P(c) == PreEntries(c)
         IN  Concat(Map1(U, UserConfigs(u))) \o Concat(Map1(P, PreConfigs(u)))

\* generate_chat_response up to the call of _generate_litellm_response, and the
\* choice of args["tools"] there.
generate_chat_response(u, tool_calling) ==
    /\ catalog' = [tool_calling |-> tool_calling,
                   entries |-> all_mcp_tools(u, tool_calling), fresh |-> TRUE]
    /\ tools_sent' = (Len(all_mcp_tools(u, tool_calling)) > 0)
    /\ UNCHANGED <<mcp_configs, mcp_tools, pre_configs, toggle, update_result>>
    /\ UNCHANGED <<conversationVars, decisions>>

BuildCatalog(u, tool_calling) ==
    /\ generate_chat_response(u, tool_calling)
    /\ UNCHANGED <<streamVars, turnVars, conversationVars, decisions>>

----------------------------------------------------------------------------
(* Resolution of a proposed call: handle_chat_request.event_generator *)

NotFound == [kind |-> "none"]

FirstOrNone(found) == IF found = <<>> THEN NotFound ELSE Head(found)

\* The loop over user.mcp_configs and their tools: the first tool whose code is
\* tool_code.
resolve_user_tool(u, tool_code) ==
    LET M(config) ==
            SelectSeq(UserTools(config), LAMBDA t : t.code = tool_code)
        hits == Concat(Map1(M, UserConfigs(u)))
    IN  IF hits = <<>> THEN NotFound
        ELSE [kind |-> "user", code |-> Head(hits).code, row |-> Head(hits).id,
              name |-> Head(hits).name]

\* The loop over user.preconfigured_mcp_configs: the first built-in tool named
\* config.code + "__" + tool_name of a row whose code is config_code.
resolve_preconfigured_tool(u, config_code, tool_name) ==
    LET M(config) ==
            LET N(shape) == [kind |-> "preconfigured", code |-> shape, row |-> config.id,
                             name |-> shape]
            IN  Map1(N, SelectSeq(get_preconfigured_tools(config, TRUE),
                                  LAMBDA shape : shape = config.code \o Sep \o tool_name))
        hits == Concat(Map1(M, SelectSeq(PreConfigs(u), LAMBDA c : c.code = config_code)))
    IN  FirstOrNone(hits)

\* The mcp_tool the loop body finds for tool_call["name"]; kind "none" when it finds
\* none, "ValueError" when the unpacking of split("__") raises.
resolve_tool_call(u, call_code) ==
    LET first == IF is_user_call_code(call_code)
                 THEN resolve_user_tool(u, remove_call_code_suffix(call_code))
                 ELSE NotFound
        parts == Split(remove_call_code_suffix(call_code), Sep)
    IN  IF ~is_preconfigured_call_code(call_code) THEN first
        ELSE IF Len(parts) < 2 THEN [kind |-> "ValueError"]
        ELSE LET second == resolve_preconfigured_tool(u, parts[1], parts[2])
             IN  IF second.kind = "none" THEN first ELSE second

----------------------------------------------------------------------------
(* The turn: handle_chat_request, handle_tool_call and event_generator *)

(* Validation of stored rows against the declared schema (NOT NULL columns, the  *)
(* fields a response model requires) is left out: a row holds what the code gave *)
(* it.                                                                           *)

NoToolUse == [present |-> FALSE]

Message(role, content, tool_use) == [role |-> role, content |-> content, tool_use |-> tool_use]

MCPToolUse_not_added(name, args, tool) == NoToolUse

\* MCPToolUse(name=..., args=..., tool=mcp_tool): no state is given.
MCPToolUse(name, args, tool) ==
    [present |-> TRUE, name |-> name, args |-> args, state |-> "unset", tool |-> tool]

add_message_to_conversation_first(msgs, role, content, tool_use) ==
    <<Message(role, content, tool_use)>> \o msgs

\* add_message_to_conversation: the messages of the conversation afterwards.
add_message_to_conversation(msgs, role, content, tool_use) ==
    Append(msgs, Message(role, content, tool_use))

NoTurn ==
    [pc |-> "idle", n |-> 0, is_new_conversation |-> FALSE, tool_decision |-> "None",
     tool_calling |-> FALSE, created_user_message_id |-> FALSE, content |-> <<>>,
     tool_calls |-> <<>>, next |-> 1, base |-> 0, formatted_messages |-> <<>>,
     conversation_id |-> "None", http_status |-> "none", generated_title |-> <<>>]

NoTraffic == [sessions |-> 0, call_tool |-> 0, returned |-> <<>>]

TurnIdle ==
    /\ conversation = [exists |-> FALSE, title |-> <<>>]
    /\ messages = <<>>
    /\ net = NoTraffic
    /\ out = <<>>
    /\ turn = NoTurn

UserMessage == <<"q">>

\* conversation_id: none given, the id of the conversation, an id of no conversation.
ConversationIds == {"None", "known", "unknown"}

\* tool_decision: bool | None
ToolDecisions == {"None", "True", "False"}

\* The generator of the request before is gone with it.
GeneratorGone ==
    /\ gpc' = "idle"
    /\ unfinished_call' = NoCall
    /\ revents' = <<>>
    /\ nchunks' = 0
    /\ calls' = <<>>
    /\ cur_doc' = <<>>
    /\ stream_end' = "no"
    /\ UNCHANGED provider_names

\* formatted_messages.append({"role": msg.role, "content": msg.content}), for the
\* messages of the conversation in the order of created_at.
FormattedMessages(msgs) ==
    [i \in 1..Len(msgs) |-> [role |-> msgs[i].role, content |-> msgs[i].content]]

FoldResult_forgotten(formatted_messages, text) == formatted_messages

\* formatted_messages.append({"role": "function_call_result", "content": response_text})
FoldResult(formatted_messages, text) ==
    Append(formatted_messages, [role |-> "function_call_result", content |-> text])

\* The first entry _generate_litellm_response gives the provider.
SystemEntry == [role |-> "system", wrap |-> "none", content |-> "Remember..."]

provider_entries_drops_results(msg) ==
    CASE msg.role = "user" -> <<[role |-> "user", wrap |-> "none", content |-> msg.content]>>
      [] msg.role = "assistant" ->
             <<[role |-> "assistant", wrap |-> "none", content |-> msg.content]>>
      [] msg.role = "system" -> <<[role |-> "user", wrap |-> "System: ", content |-> msg.content]>>
      [] msg.role = "function_call" ->
             <<[role |-> "assistant", wrap |-> "tool_call_parameters", content |-> msg.content]>>
      [] OTHER -> <<>>

\* The body of `for msg in messages`: what one entry of the history appends.  The
\* f-strings put the content between the marker's opening and closing tag; an
\* entry of another role appends nothing.
provider_entries(msg) ==
    CASE msg.role = "user" -> <<[role |-> "user", wrap |-> "none", content |-> msg.content]>>
      [] msg.role = "assistant" ->
             <<[role |-> "assistant", wrap |-> "none", content |-> msg.content]>>
      [] msg.role = "system" -> <<[role |-> "user", wrap |-> "System: ", content |-> msg.content]>>
      [] msg.role = "function_call" ->
             <<[role |-> "assistant", wrap |-> "tool_call_parameters", content |-> msg.content]>>
      [] msg.role = "function_call_result" ->
             <<[role |-> "assistant", wrap |-> "tool_call_response", content |-> msg.content]>>
      [] OTHER -> <<>>

RECURSIVE provider_messages(_)
\* formatted_messages of _generate_litellm_response for the messages it is given.
provider_messages(msgs) ==
    IF msgs = <<>> THEN <<SystemEntry>>
    ELSE provider_messages(SubSeq(msgs, 1, Len(msgs) - 1)) \o provider_entries(msgs[Len(msgs)])

get_conversation_by_id_and_user_id_found(conversation_id) == [found |-> TRUE]

\* select(Conversation).where(Conversation.id == conversation_id,
\*                            Conversation.user_id == user_id)
get_conversation_by_id_and_user_id(conversation_id) ==
    [found |-> conversation_id = "known" /\ conversation.exists]

handle_chat_request_always_adds_user_message(conversation_id, tool_decision, tool_calling) ==
    /\ turn.pc \in {"idle", "done", "raised", "closed"}
    /\ turn.n < MaxTurns
    /\ conversation_id = "None" => ~conversation.exists
    /\ conversation_id = "known" => conversation.exists
    /\ LET added == add_message_to_conversation(messages, "user", UserMessage, NoToolUse)
           decide == /\ tool_decision # "None"
                     /\ added # <<>>
                     /\ added[Len(added)].role = "function_call"
       IN  IF conversation_id # "None" /\ ~get_conversation_by_id_and_user_id(conversation_id).found
           THEN /\ turn' = [NoTurn EXCEPT !.pc = "raised", !.n = turn.n + 1,
                                          !.tool_decision = tool_decision,
                                          !.tool_calling = tool_calling,
                                          !.base = Len(messages),
                                          !.conversation_id = conversation_id,
                                          !.http_status = "404"]
                /\ UNCHANGED <<conversation, messages>>
           ELSE /\ conversation' = IF conversation_id = "None"
                                   THEN [exists |-> TRUE, title |-> <<>>]
                                   ELSE conversation
                /\ messages' = added
                /\ turn' = [pc |-> IF decide THEN "tool_decision" ELSE "generate",
                            n |-> turn.n + 1,
                            is_new_conversation |-> (conversation_id = "None"),
                            tool_decision |-> tool_decision,
                            tool_calling |-> tool_calling,
                            created_user_message_id |-> (tool_decision = "None"),
                            content |-> <<>>,
                            tool_calls |-> <<>>,
                            next |-> 1,
                            base |-> Len(messages),
                            formatted_messages |-> FormattedMessages(added),
                            conversation_id |-> conversation_id,
                            http_status |-> "none",
                            generated_title |-> <<>>]
    /\ net' = NoTraffic
    /\ out' = <<>>
    /\ catalog' = StaleCatalog
    /\ tools_sent' = FALSE
    /\ GeneratorGone
    /\ UNCHANGED <<mcp_configs, mcp_tools, pre_configs, toggle, update_result>>
    /\ UNCHANGED <<conversationVars, decisions>>

\* handle_chat_request up to the test for a tool decision.
handle_chat_request(conversation_id, tool_decision, tool_calling) ==
    /\ turn.pc \in {"idle", "done", "raised", "closed"}
    /\ turn.n < MaxTurns
    /\ conversation_id = "None" => ~conversation.exists
    /\ conversation_id = "known" => conversation.exists
    /\ LET added == IF tool_decision = "None"
                    THEN add_message_to_conversation(messages, "user", UserMessage, NoToolUse)
                    ELSE messages
           decide == /\ tool_decision # "None"
                     /\ added # <<>>
                     /\ added[Len(added)].role = "function_call"
       IN  IF conversation_id # "None" /\ ~get_conversation_by_id_and_user_id(conversation_id).found
           THEN /\ turn' = [NoTurn EXCEPT !.pc = "raised", !.n = turn.n + 1,
                                          !.tool_decision = tool_decision,
                                          !.tool_calling = tool_calling,
                                          !.base = Len(messages),
                                          !.conversation_id = conversation_id,
                                          !.http_status = "404"]
                /\ UNCHANGED <<conversation, messages>>
           ELSE /\ conversation' = IF conversation_id = "None"
                                   THEN [exists |-> TRUE, title |-> <<>>]
                                   ELSE conversation
                /\ messages' = added
                /\ turn' = [pc |-> IF decide THEN "tool_decision" ELSE "generate",
                            n |-> turn.n + 1,
                            is_new_conversation |-> (conversation_id = "None"),
                            tool_decision |-> tool_decision,
                            tool_calling |-> tool_calling,
                            created_user_message_id |-> (tool_decision = "None"),
                            content |-> <<>>,
                            tool_calls |-> <<>>,
                            next |-> 1,
                            base |-> Len(messages),
                            formatted_messages |-> FormattedMessages(added),
                            conversation_id |-> conversation_id,
                            http_status |-> "none",
                            generated_title |-> <<>>]
    /\ net' = NoTraffic
    /\ out' = <<>>
    /\ catalog' = StaleCatalog
    /\ tools_sent' = FALSE
    /\ GeneratorGone
    /\ UNCHANGED <<mcp_configs, mcp_tools, pre_configs, toggle, update_result>>
    /\ UNCHANGED <<conversationVars, decisions>>

get_preconfigured_url(code) ==
    IF code = sequentialthinking
    THEN [raised |-> FALSE, url |-> "https://remote.mcpservers.org/sequentialthinking/mcp"]
    ELSE IF code = fetch
         THEN [raised |-> FALSE, url |-> "https://remote.mcpservers.org/fetch/mcp"]
         ELSE [raised |-> TRUE]

\* The tool handle_tool_call is going to call, or the exception raised on the way.
tool_target(tool_use) ==
    LET config_part == remove_call_code_suffix(tool_use.name)
        parts == Split(config_part, Sep)
        mcp_tool == {t \in mcp_tools : t.id = tool_use.tool}
    IN  IF ~is_preconfigured_call_code(tool_use.name)
        THEN IF mcp_tool = {}
             THEN [raised |-> "Exception"]
             ELSE [raised |-> "no", tool_name |-> (CHOOSE t \in mcp_tool : TRUE).name]
        ELSE IF Len(parts) # 2
             THEN [raised |-> "ValueError"]
             ELSE IF get_preconfigured_url(parts[1]).raised
                  THEN [raised |-> "RuntimeError"]
                  ELSE [raised |-> "no", tool_name |-> parts[2]]

TextContent == [type |-> "text", text |-> <<"r">>]

OtherTextContent == [type |-> "text", text |-> <<"s">>]

ImageContent == [type |-> "image"]

\* What the tool server does: the session cannot be opened, call_tool raises, or
\* call_tool returns a result with these content items.
ToolServerOutcomes ==
    { [session |-> FALSE, result |-> "none", content |-> <<>>],
      [session |-> TRUE, result |-> "raised", content |-> <<>>] } \cup
    { [session |-> TRUE, result |-> "ok", content |-> c] :
        c \in {<<>>, <<TextContent>>, <<ImageContent>>,
               <<TextContent, ImageContent, OtherTextContent>>} }

RECURSIVE response_text_of_every_item(_)
response_text_of_every_item(content) ==
    IF content = <<>> THEN <<>>
    ELSE (IF Head(content).type = "text" THEN Head(content).text ELSE <<"?">>)
             \o response_text_of_every_item(Tail(content))

RECURSIVE response_text(_)
\* response_text += content_item.text, for the TextContent items
response_text(content) ==
    IF content = <<>> THEN <<>>
    ELSE (IF Head(content).type = "text" THEN Head(content).text ELSE <<>>)
             \o response_text(Tail(content))

\* The state handle_tool_call gives the ToolUse.
DecidedState(tool_decision) == IF tool_decision = "True" THEN "approved" ELSE "rejected"

handle_tool_call_for_each_proposal(outcome) ==
    /\ turn.pc = "tool_decision"
    /\ LET tool_use == messages[Len(messages)].tool_use
           target == tool_target(tool_use)
           opens == target.raised = "no"
           text == IF opens THEN response_text(outcome.content) ELSE <<>>
           failed == target.raised # "no" \/ (opens /\ outcome.result # "ok")
       IN  /\ net' = IF opens
                     THEN [sessions |-> net.sessions + Len(SelectSeq(messages, LAMBDA m : m.role = "function_call")),
                           call_tool |-> net.call_tool + (IF outcome.session
                                                          THEN Len(SelectSeq(messages, LAMBDA m : m.role = "function_call"))
                                                          ELSE 0),
                           returned |-> outcome.content]
                     ELSE net
           /\ IF failed
              THEN /\ turn' = [turn EXCEPT !.pc = "raised"]
                   /\ UNCHANGED messages
              ELSE /\ messages' =
                         add_message_to_conversation(
                             [messages EXCEPT ![Len(messages)].tool_use.state =
                                                  DecidedState(turn.tool_decision)],
                             "function_call_result", text, NoToolUse)
                   /\ turn' = [turn EXCEPT !.pc = "generate",
                                            !.formatted_messages = FoldResult(@, text)]
    /\ UNCHANGED <<conversation, out>>
    /\ UNCHANGED <<catalogVars, streamVars, conversationVars, decisions>>

handle_tool_call_commits_state_first(outcome) ==
    /\ turn.pc = "tool_decision"
    /\ LET tool_use == messages[Len(messages)].tool_use
           target == tool_target(tool_use)
           opens == target.raised = "no"
           text == IF opens THEN response_text(outcome.content) ELSE <<>>
           failed == target.raised # "no" \/ (opens /\ outcome.result # "ok")
       IN  /\ net' = IF opens
                     THEN [sessions |-> net.sessions + 1,
                           call_tool |-> net.call_tool + (IF outcome.session THEN 1 ELSE 0),
                           returned |-> outcome.content]
                     ELSE net
           /\ IF failed
              THEN /\ turn' = [turn EXCEPT !.pc = "raised"]
                   /\ messages' = [messages EXCEPT ![Len(messages)].tool_use.state =
                                                       DecidedState(turn.tool_decision)]
              ELSE /\ messages' =
                         add_message_to_conversation(
                             [messages EXCEPT ![Len(messages)].tool_use.state =
                                                  DecidedState(turn.tool_decision)],
                             "function_call_result", text, NoToolUse)
                   /\ turn' = [turn EXCEPT !.pc = "generate",
                                            !.formatted_messages = FoldResult(@, text)]
    /\ UNCHANGED <<conversation, out>>
    /\ UNCHANGED <<catalogVars, streamVars, conversationVars, decisions>>

handle_tool_call_of_first_undecided(outcome) ==
    /\ turn.pc = "tool_decision"
    /\ LET at == CHOOSE i \in 1..Len(messages) :
                     /\ messages[i].role = "function_call"
                     /\ messages[i].tool_use.state = "unset"
                     /\ \A j \in 1..(i - 1) :
                            ~(messages[j].role = "function_call" /\ messages[j].tool_use.state = "unset")
           tool_use == messages[at].tool_use
           target == tool_target(tool_use)
           opens == target.raised = "no"
           text == IF opens THEN response_text(outcome.content) ELSE <<>>
           failed == target.raised # "no" \/ (opens /\ outcome.result # "ok")
       IN  /\ net' = IF opens
                     THEN [sessions |-> net.sessions + 1,
                           call_tool |-> net.call_tool + (IF outcome.session THEN 1 ELSE 0),
                           returned |-> outcome.content]
                     ELSE net
           /\ IF failed
              THEN /\ turn' = [turn EXCEPT !.pc = "raised"]
                   /\ UNCHANGED messages
              ELSE /\ messages' =
                         add_message_to_conversation(
                             [messages EXCEPT ![at].tool_use.state =
                                                  DecidedState(turn.tool_decision)],
                             "function_call_result", text, NoToolUse)
                   /\ turn' = [turn EXCEPT !.pc = "generate",
                                            !.formatted_messages = FoldResult(@, text)]
    /\ UNCHANGED <<conversation, out>>
    /\ UNCHANGED <<catalogVars, streamVars, conversationVars, decisions>>

\* handle_tool_call: the session is opened and the tool called whatever was decided.
handle_tool_call(outcome) ==
    /\ turn.pc = "tool_decision"
    /\ LET tool_use == messages[Len(messages)].tool_use
           target == tool_target(tool_use)
           opens == target.raised = "no"
           text == IF opens THEN response_text(outcome.content) ELSE <<>>
           failed == target.raised # "no" \/ (opens /\ outcome.result # "ok")
       IN  /\ net' = IF opens
                     THEN [sessions |-> net.sessions + 1,
                           call_tool |-> net.call_tool + (IF outcome.session THEN 1 ELSE 0),
                           returned |-> outcome.content]
                     ELSE net
           /\ IF failed
              THEN /\ turn' = [turn EXCEPT !.pc = "raised"]
                   /\ UNCHANGED messages
              ELSE /\ messages' =
                         add_message_to_conversation(
                             [messages EXCEPT ![Len(messages)].tool_use.state =
                                                  DecidedState(turn.tool_decision)],
                             "function_call_result", text, NoToolUse)
                   /\ turn' = [turn EXCEPT !.pc = "generate",
                                            !.formatted_messages = FoldResult(@, text)]
    /\ UNCHANGED <<conversation, out>>
    /\ UNCHANGED <<catalogVars, streamVars, conversationVars, decisions>>

\* generate_chat_response(messages=formatted_messages, ...) is called and hands back
\* the generator.
T_Generate ==
    /\ turn.pc = "generate"
    /\ generate_chat_response(Me, turn.tool_calling)
    /\ G_Create
    /\ turn' = [turn EXCEPT !.pc = "prelude"]
    /\ UNCHANGED <<conversation, messages, net, out>>

T_Prelude_always_user_message_id ==
    /\ turn.pc = "prelude"
    /\ out' = out
              \o <<Event("user_message_id", turn.base + 1)>>
              \o (IF turn.is_new_conversation
                  THEN <<Event("conversation_created", 1)>> ELSE <<>>)
    /\ turn' = [turn EXCEPT !.pc = "streaming"]
    /\ UNCHANGED <<conversation, messages, net>>
    /\ UNCHANGED <<catalogVars, streamVars, conversationVars, decisions>>

\* event_generator before its loop.
T_Prelude ==
    /\ turn.pc = "prelude"
    /\ out' = out
              \o (IF turn.created_user_message_id
                  THEN <<Event("user_message_id", turn.base + 1)>> ELSE <<>>)
              \o (IF turn.is_new_conversation
                  THEN <<Event("conversation_created", 1)>> ELSE <<>>)
    /\ turn' = [turn EXCEPT !.pc = "streaming"]
    /\ UNCHANGED <<conversation, messages, net>>
    /\ UNCHANGED <<catalogVars, streamVars, conversationVars, decisions>>

Yielded_function_call_at_once(e) ==
    CASE e.event = "auth_error" -> <<Event("auth_error", <<>>)>>
      [] e.event = "api_error" -> <<Event("api_error", e.data)>>
      [] e.event = "text" -> <<Event("message", e.data)>>
      [] e.event = "function_call" -> <<Event("function_call", 0)>>
      [] OTHER -> <<>>

\* What the loop of event_generator yields for one event of the response.
Yielded(e) ==
    CASE e.event = "auth_error" -> <<Event("auth_error", <<>>)>>
      [] e.event = "api_error" -> <<Event("api_error", e.data)>>
      [] e.event = "text" -> <<Event("message", e.data)>>
      [] OTHER -> <<>>

RECURSIVE YieldedAll(_)
YieldedAll(events) ==
    IF events = <<>> THEN <<>> ELSE Yielded(Head(events)) \o YieldedAll(Tail(events))

Kept_error_drops_calls(t, e) ==
    CASE e.event = "function_call" -> [t EXCEPT !.tool_calls = Append(@, e.data)]
      [] e.event = "text" -> [t EXCEPT !.content = @ \o e.data]
      [] e.event \in {"auth_error", "api_error"} -> [t EXCEPT !.tool_calls = <<>>]
      [] OTHER -> t

Kept_last_delta(t, e) ==
    CASE e.event = "function_call" -> [t EXCEPT !.tool_calls = Append(@, e.data)]
      [] e.event = "text" -> [t EXCEPT !.content = e.data]
      [] OTHER -> t

\* What the loop keeps of one event: content += event.data, tool_calls.append(data).
Kept(t, e) ==
    CASE e.event = "function_call" -> [t EXCEPT !.tool_calls = Append(@, e.data)]
      [] e.event = "text" -> [t EXCEPT !.content = @ \o e.data]
      [] OTHER -> t

RECURSIVE KeptAll(_, _)
KeptAll(t, events) ==
    IF events = <<>> THEN t ELSE KeptAll(Kept(t, Head(events)), Tail(events))

\* The loop of event_generator takes what the response yields on a step of it; the
\* loop ends when the generator returns, and its exception comes out of the loop.
Taken ==
    /\ turn.pc = "streaming"
    /\ nchunks < MaxTurnChunks \/ nchunks' = nchunks
    /\ out' = out \o YieldedAll(NewEvents)
    /\ turn' = [KeptAll(turn, NewEvents) EXCEPT
                   !.pc = CASE gpc' = "reading" -> "streaming"
                            [] gpc' = "finished" -> "streamed"
                            [] OTHER -> "raised"]
    /\ UNCHANGED <<conversation, messages, net>>
    /\ UNCHANGED <<catalogVars, conversationVars, decisions>>

EmptyObject == <<"{", "}">>

T_Open == (\E outcome \in OpenOutcomes : G_Open(outcome)) /\ Taken

T_TextChunk == G_TextChunk /\ Taken

\* The argument texts of the calls of a turn: {}, the text { of a call that was cut
\* short, and no text.
TurnArgTexts == {EmptyObject, <<"{">>, <<>>}

\* A provider sends tool calls only when it was sent tools; the name it gives may be
\* any name.
T_StartChunk ==
    /\ tools_sent
    /\ \E name \in provider_names, arguments \in TurnArgTexts :
           G_Chunk(ToolChunk(TRUE, Function(name, arguments), None), arguments)
    /\ Taken

T_StreamError == (\E outcome \in StreamErrors : G_StreamError(outcome)) /\ Taken

T_End == G_End /\ Taken

\* After the loop: the assistant message and message_done.
T_MessageDone ==
    /\ turn.pc = "streamed"
    /\ IF turn.content # <<>>
       THEN /\ messages' = add_message_to_conversation(messages, "assistant", turn.content, NoToolUse)
            /\ out' = Append(out, Event("message_done", Len(messages) + 1))
       ELSE UNCHANGED <<messages, out>>
    /\ turn' = [turn EXCEPT !.pc = "tool_calls", !.next = 1]
    /\ UNCHANGED <<conversation, net>>
    /\ UNCHANGED <<catalogVars, streamVars, conversationVars, decisions>>

T_ToolCall_breaks_at_unresolved ==
    /\ turn.pc = "tool_calls"
    /\ turn.next <= Len(turn.tool_calls)
    /\ LET tool_call == turn.tool_calls[turn.next]
           mcp_tool == resolve_tool_call(Me, tool_call.name)
       IN  CASE mcp_tool.kind = "ValueError" ->
                    /\ turn' = [turn EXCEPT !.pc = "raised"]
                    /\ UNCHANGED <<messages, out>>
             [] mcp_tool.kind = "none" ->
                    /\ turn' = [turn EXCEPT !.next = Len(turn.tool_calls) + 1]
                    /\ UNCHANGED <<messages, out>>
             [] mcp_tool.kind \in {"user", "preconfigured"} /\ tool_call.arguments.type # "dict" ->
                    /\ turn' = [turn EXCEPT !.pc = "raised"]
                    /\ UNCHANGED <<messages, out>>
             [] OTHER ->
                    /\ messages' =
                           add_message_to_conversation(
                               messages, "function_call", tool_call,
                               MCPToolUse(tool_call.name, tool_call.arguments,
                                          IF mcp_tool.kind = "user" THEN mcp_tool.row ELSE 0))
                    /\ out' = Append(out, Event("function_call", Len(messages) + 1))
                    /\ turn' = [turn EXCEPT !.next = @ + 1]
    /\ UNCHANGED <<conversation, net>>
    /\ UNCHANGED <<catalogVars, streamVars, conversationVars, decisions>>

\* One pass of the loop over tool_calls.
T_ToolCall ==
    /\ turn.pc = "tool_calls"
    /\ turn.next <= Len(turn.tool_calls)
    /\ LET tool_call == turn.tool_calls[turn.next]
           mcp_tool == resolve_tool_call(Me, tool_call.name)
       IN  CASE mcp_tool.kind = "ValueError" ->
                    /\ turn' = [turn EXCEPT !.pc = "raised"]
                    /\ UNCHANGED <<messages, out>>
             [] mcp_tool.kind = "none" ->
                    /\ turn' = [turn EXCEPT !.next = @ + 1]
                    /\ UNCHANGED <<messages, out>>
             [] mcp_tool.kind \in {"user", "preconfigured"} /\ tool_call.arguments.type # "dict" ->
                    /\ turn' = [turn EXCEPT !.pc = "raised"]
                    /\ UNCHANGED <<messages, out>>
             [] OTHER ->
                    /\ messages' =
                           add_message_to_conversation(
                               messages, "function_call", tool_call,
                               MCPToolUse(tool_call.name, tool_call.arguments,
                                          IF mcp_tool.kind = "user" THEN mcp_tool.row ELSE 0))
                    /\ out' = Append(out, Event("function_call", Len(messages) + 1))
                    /\ turn' = [turn EXCEPT !.next = @ + 1]
    /\ UNCHANGED <<conversation, net>>
    /\ UNCHANGED <<catalogVars, streamVars, conversationVars, decisions>>

TitleWanted_in_any_turn == turn.content # <<>> \/ Len(turn.tool_calls) > 0

\* if is_new_conversation and (content or len(tool_calls) > 0)
TitleWanted ==
    turn.is_new_conversation /\ (turn.content # <<>> \/ Len(turn.tool_calls) > 0)

\* What the generator of the title completion, which is sent no tools, yields, and
\* whether it raises in the end: no output, a title, an auth_error event, an
\* api_error event, an exception at once, an exception after a part of the title.
TitleStreams ==
    { [events |-> <<>>, raised |-> FALSE],
      [events |-> <<Event("text", <<"T">>)>>, raised |-> FALSE],
      [events |-> <<Event("auth_error", <<>>)>>, raised |-> FALSE],
      [events |-> <<Event("api_error", ApiErrorMessage)>>, raised |-> FALSE],
      [events |-> <<>>, raised |-> TRUE],
      [events |-> <<Event("text", <<"T">>)>>, raised |-> TRUE] }

RECURSIVE TitleOf(_)
\* title += title_part.data
TitleOf(events) ==
    IF events = <<>> THEN <<>> ELSE Head(events).data \o TitleOf(Tail(events))

generate_and_set_conversation_title_raises(stream) ==
    /\ turn.pc = "tool_calls"
    /\ turn.next > Len(turn.tool_calls)
    /\ TitleWanted
    /\ LET title == TitleOf(stream.events)
       IN  /\ conversation' = IF title # <<>> /\ ~stream.raised
                              THEN [conversation EXCEPT !.title = title]
                              ELSE conversation
           /\ out' = IF title # <<>> /\ ~stream.raised
                     THEN Append(out, Event("conversation_title_updated", title))
                     ELSE out
           /\ turn' = [turn EXCEPT !.pc = IF stream.raised THEN "raised" ELSE "finish",
                                    !.generated_title = title]
    /\ UNCHANGED <<messages, net>>
    /\ UNCHANGED <<catalogVars, streamVars, conversationVars, decisions>>

\* generate_and_set_conversation_title and the event of its title: an exception of
\* the completion or of the update is logged, and the title read so far returned.
generate_and_set_conversation_title(stream) ==
    /\ turn.pc = "tool_calls"
    /\ turn.next > Len(turn.tool_calls)
    /\ TitleWanted
    /\ LET title == TitleOf(stream.events)
       IN  /\ conversation' = IF title # <<>> /\ ~stream.raised
                              THEN [conversation EXCEPT !.title = title]
                              ELSE conversation
           /\ out' = IF title # <<>>
                     THEN Append(out, Event("conversation_title_updated", title))
                     ELSE out
           /\ turn' = [turn EXCEPT !.pc = "finish", !.generated_title = title]
    /\ UNCHANGED <<messages, net>>
    /\ UNCHANGED <<catalogVars, streamVars, conversationVars, decisions>>

\* yield {"event": "done", "data": ""}
T_Done ==
    /\ \/ turn.pc = "finish"
       \/ turn.pc = "tool_calls" /\ turn.next > Len(turn.tool_calls) /\ ~TitleWanted
    /\ out' = Append(out, Event("done", <<>>))
    /\ turn' = [turn EXCEPT !.pc = "done"]
    /\ UNCHANGED <<conversation, messages, net>>
    /\ UNCHANGED <<catalogVars, streamVars, conversationVars, decisions>>

\* The points of event_generator between the acceptance of the request and the
\* last event.
InEventStream == turn.pc \in {"prelude", "streaming", "streamed", "tool_calls", "finish"}

T_Disconnect_half_written ==
    /\ InEventStream
    /\ turn' = [turn EXCEPT !.pc = "closed"]
    /\ messages' = IF turn.pc = "tool_calls" /\ turn.next <= Len(turn.tool_calls)
                   THEN add_message_to_conversation(messages, "function_call",
                                                    turn.tool_calls[turn.next], NoToolUse)
                   ELSE messages
    /\ UNCHANGED <<conversation, net, out>>
    /\ UNCHANGED <<catalogVars, streamVars, conversationVars, decisions>>

\* The client disconnects: EventSourceResponse cancels event_generator where it
\* stands.  A write is one commit of the message and its ToolUse, so a cancellation
\* inside add_message_to_conversation leaves the rows as before the write or as
\* after it, which are the rows at the points between the steps.
T_Disconnect ==
    /\ InEventStream
    /\ turn' = [turn EXCEPT !.pc = "closed"]
    /\ UNCHANGED <<conversation, messages, net, out>>
    /\ UNCHANGED <<catalogVars, streamVars, conversationVars, decisions>>

----------------------------------------------------------------------------
(* The conversation service: create_conversation, delete_conversation and        *)
(* get_conversation_by_id_and_user_id on the table conversations                 *)

Users == {Me, Other}

\* The ids a caller may ask for: those uuid4 gives the rows, and one it never gives.
AskedIds == 0..MaxConversations

\* The locals of a request that came with a tool decision.
IdleDecision == [pc |-> "idle", tool_decision |-> "None", seen |-> 0, response_text |-> <<>>]

NoDecisions == [r \in Reqs |-> IdleDecision]

NotFoundConversation == [found |-> FALSE, id |-> 0, user_id |-> Me]

NoConversations ==
    [created |-> {}, deleted |-> {}, got |-> [asked |-> FALSE, id |-> 0, user_id |-> Me,
                                              result |-> NotFoundConversation]]

ConversationsIdle ==
    /\ conversations = {}
    /\ conversation_log = NoConversations

scalars_first_any_user(rows, conversation_id, user_id) ==
    LET matching == {c \in rows : c.id = conversation_id}
    IN  IF matching = {} THEN NotFoundConversation
        ELSE LET c == CHOOSE x \in matching : TRUE
             IN  [found |-> TRUE, id |-> c.id, user_id |-> c.user_id]

\* select(Conversation).where(Conversation.id == conversation_id,
\*                            Conversation.user_id == user_id), .scalars().first()
scalars_first(rows, conversation_id, user_id) ==
    LET matching == {c \in rows : c.id = conversation_id /\ c.user_id = user_id}
    IN  IF matching = {} THEN NotFoundConversation
        ELSE LET c == CHOOSE x \in matching : TRUE
             IN  [found |-> TRUE, id |-> c.id, user_id |-> c.user_id]

\* create_conversation: the row is given a new id (uuid4) and committed.
create_conversation(user_id) ==
    /\ Cardinality(conversation_log.created) < MaxConversations
    /\ LET row == [id |-> Cardinality(conversation_log.created) + 1, user_id |-> user_id]
       IN  /\ conversations' = conversations \cup {row}
           /\ conversation_log' = [conversation_log EXCEPT !.created = @ \cup {row}]
    /\ UNCHANGED <<catalogVars, streamVars, turnVars, decisions>>

\* delete_conversation: db.delete(conversation), commit.
delete_conversation(row) ==
    /\ row \in conversations
    /\ conversations' = conversations \ {row}
    /\ conversation_log' = [conversation_log EXCEPT !.deleted = @ \cup {row}]
    /\ UNCHANGED <<catalogVars, streamVars, turnVars, decisions>>

\* A call of get_conversation_by_id_and_user_id(db, conversation_id, user_id) on
\* the table, and what it returned.
get_conversation(conversation_id, user_id) ==
    /\ conversation_log' =
           [conversation_log EXCEPT !.got =
               [asked |-> TRUE, id |-> conversation_id, user_id |-> user_id,
                result |-> scalars_first(conversations, conversation_id, user_id)]]
    /\ UNCHANGED conversations
    /\ UNCHANGED <<catalogVars, streamVars, turnVars, decisions>>

V_Create == \E user_id \in Users : create_conversation(user_id)

V_Delete == \E row \in conversations : delete_conversation(row)

V_Get == \E conversation_id \in AskedIds, user_id \in Users : get_conversation(conversation_id, user_id)

----------------------------------------------------------------------------
(* Requests with a tool decision side by side on one conversation: each has its  *)
(* own database session and runs handle_chat_request up to the call of           *)
(* generate_chat_response, one await at a time.                                  *)

\* messages = await get_messages_by_conversation(...), and the test of
\* messages[-1].role: the request goes on to handle_tool_call or passes it by.
ReadMessages(r, tool_decision) ==
    /\ decisions[r].pc = "idle"
    /\ decisions' = [decisions EXCEPT ![r] =
           [pc |-> IF messages # <<>> /\ messages[Len(messages)].role = "function_call"
                   THEN "handle_tool_call" ELSE "generate",
            tool_decision |-> tool_decision,
            seen |-> Len(messages),
            response_text |-> <<>>]]
    /\ UNCHANGED <<messages, net>>
    /\ UNCHANGED <<catalogVars, streamVars, conversationVars, conversation, out, turn>>

\* handle_tool_call up to the answer of call_tool: tool_use.state is assigned in
\* the session of the request, the session to the server opened, the tool called.
CallTool(r, outcome) ==
    /\ decisions[r].pc = "handle_tool_call"
    /\ LET target == tool_target(messages[decisions[r].seen].tool_use)
           opens == target.raised = "no"
           failed == ~opens \/ outcome.result # "ok"
       IN  /\ net' = IF opens
                     THEN [sessions |-> net.sessions + 1,
                           call_tool |-> net.call_tool + (IF outcome.session THEN 1 ELSE 0),
                           returned |-> outcome.content]
                     ELSE net
           /\ decisions' = [decisions EXCEPT
                  ![r].pc = IF failed THEN "raised" ELSE "called",
                  ![r].response_text = IF failed THEN <<>> ELSE response_text(outcome.content)]
    /\ UNCHANGED messages
    /\ UNCHANGED <<catalogVars, streamVars, conversationVars, conversation, out, turn>>

\* The rest of handle_tool_call: add_message_to_conversation commits the
\* function_call_result message and, with it, the state assigned to the ToolUse.
CommitResult(r) ==
    /\ decisions[r].pc = "called"
    /\ messages' =
           add_message_to_conversation(
               [messages EXCEPT ![decisions[r].seen].tool_use.state =
                                    DecidedState(decisions[r].tool_decision)],
               "function_call_result", decisions[r].response_text, NoToolUse)
    /\ decisions' = [decisions EXCEPT ![r].pc = "generate"]
    /\ UNCHANGED net
    /\ UNCHANGED <<catalogVars, streamVars, conversationVars, conversation, out, turn>>

----------------------------------------------------------------------------
(* The specification of the catalog *)

\* The rows of the other user: a private server with one tool and an enabled
\* preconfigured server.
OtherConfigs == {[id |-> 1, user |-> Other]}

OtherTools == {[id |-> 1, config |-> 1, code |-> <<"k", "_", "p">>, name |-> <<"g">>]}

OtherPreConfigs == {[id |-> 1, user |-> Other, code |-> fetch, enabled |-> TRUE]}

CatalogInit ==
    /\ mcp_configs = OtherConfigs
    /\ mcp_tools = OtherTools
    /\ pre_configs = OtherPreConfigs
    /\ toggle = [r \in Reqs |-> IdleToggle]
    /\ catalog = NoCatalog
    /\ tools_sent = FALSE
    /\ update_result = NoUpdate
    /\ ConversationsIdle
    /\ decisions = NoDecisions
    /\ StreamIdle
    /\ TurnIdle

C_Create ==
    \E listed \in ListedChoices, reachable \in BOOLEAN :
        \E codes \in CodeChoices(Len(listed)) : create_mcp_config(Me, listed, codes, reachable)

C_Update ==
    \E cfg \in {c.id : c \in {x \in mcp_configs : x.user = Me}},
       listed \in ListedChoices, reachable \in BOOLEAN :
        \E codes \in CodeChoices(Len(listed)) : update_mcp_config(cfg, listed, codes, reachable)

C_ToggleLookup ==
    \E r \in Reqs, code \in PreCodes, enabled \in BOOLEAN : ToggleLookup(r, Me, code, enabled)

C_ToggleApply == \E r \in Reqs : ToggleApply(r)

C_BuildCatalog == \E tool_calling \in BOOLEAN : BuildCatalog(Me, tool_calling)

CatalogNext ==
    \/ C_Create
    \/ C_Update
    \/ C_ToggleLookup
    \/ C_ToggleApply
    \/ C_BuildCatalog

SpecCatalog == CatalogInit /\ [][CatalogNext]_vars

----------------------------------------------------------------------------
(* The specification of the stream reconstructor *)

CatalogIdle ==
    /\ mcp_configs = OtherConfigs
    /\ mcp_tools = OtherTools
    /\ pre_configs = OtherPreConfigs
    /\ toggle = [r \in Reqs |-> IdleToggle]
    /\ catalog = NoCatalog
    /\ tools_sent = FALSE
    /\ update_result = NoUpdate
    /\ ConversationsIdle
    /\ decisions = NoDecisions

StreamInit ==
    /\ CatalogIdle
    /\ gpc = "created"
    /\ unfinished_call = NoCall
    /\ revents = <<>>
    /\ nchunks = 0
    /\ calls = <<>>
    /\ cur_doc = <<>>
    /\ provider_names = {fetch \o <<"_", "u">>}
    /\ stream_end = "no"
    /\ TurnIdle

S_Open == (\E outcome \in OpenOutcomes : G_Open(outcome)) /\ UNCHANGED <<catalogVars, turnVars, conversationVars, decisions>>

S_TextChunk == G_TextChunk /\ UNCHANGED <<catalogVars, turnVars, conversationVars, decisions>>

S_SkipChunk == G_SkipChunk /\ UNCHANGED <<catalogVars, turnVars, conversationVars, decisions>>

S_StartChunk == G_StartChunk /\ UNCHANGED <<catalogVars, turnVars, conversationVars, decisions>>

S_ContinuationChunk == G_ContinuationChunk /\ UNCHANGED <<catalogVars, turnVars, conversationVars, decisions>>

S_StreamError == (\E outcome \in StreamErrors : G_StreamError(outcome)) /\ UNCHANGED <<catalogVars, turnVars, conversationVars, decisions>>

S_End == G_End /\ UNCHANGED <<catalogVars, turnVars, conversationVars, decisions>>

StreamNext ==
    \/ S_Open
    \/ S_TextChunk
    \/ S_SkipChunk
    \/ S_StartChunk
    \/ S_ContinuationChunk
    \/ S_StreamError
    \/ S_End

SpecStream == StreamInit /\ [][StreamNext]_vars

----------------------------------------------------------------------------
(* The specification of the turn *)

\* The rows of the user: a private server with the tool coded ab12 and the
\* preconfigured server fetch, enabled.
MyConfigs == {[id |-> 2, user |-> Me]}

MyToolRows == {[id |-> 2, config |-> 2, code |-> <<"a", "b", "1", "2">>, name |-> <<"g">>]}

MyPreConfigs == {[id |-> 2, user |-> Me, code |-> fetch, enabled |-> TRUE]}

\* The names of the catalog of these rows, and names of no tool of the user: one
\* with neither suffix, the name of the other user's tool, and one ending in _p
\* with no __ in it.
TurnCallNames ==
    { <<"a", "b", "1", "2", "_", "u">>,
      fetch \o Sep \o fetch \o <<"_", "p">>,
      <<"z", "z">>,
      <<"k", "_", "p", "_", "u">>,
      <<"z", "_", "p">> }

TurnInit ==
    /\ mcp_configs = OtherConfigs \cup MyConfigs
    /\ mcp_tools = OtherTools \cup MyToolRows
    /\ pre_configs = OtherPreConfigs \cup MyPreConfigs
    /\ toggle = [r \in Reqs |-> IdleToggle]
    /\ catalog = NoCatalog
    /\ tools_sent = FALSE
    /\ update_result = NoUpdate
    /\ ConversationsIdle
    /\ decisions = NoDecisions
    /\ gpc = "idle"
    /\ unfinished_call = NoCall
    /\ revents = <<>>
    /\ nchunks = 0
    /\ calls = <<>>
    /\ cur_doc = <<>>
    /\ provider_names = TurnCallNames
    /\ stream_end = "no"
    /\ TurnIdle

T_Request ==
    \E conversation_id \in ConversationIds, tool_decision \in ToolDecisions,
       tool_calling \in BOOLEAN :
        handle_chat_request(conversation_id, tool_decision, tool_calling)

T_HandleToolCall == \E outcome \in ToolServerOutcomes : handle_tool_call(outcome)

T_Title == \E stream \in TitleStreams : generate_and_set_conversation_title(stream)

TurnNext ==
    \/ T_Request
    \/ T_HandleToolCall
    \/ T_Generate
    \/ T_Prelude
    \/ T_Open
    \/ T_TextChunk
    \/ T_StartChunk
    \/ T_StreamError
    \/ T_End
    \/ T_MessageDone
    \/ T_ToolCall
    \/ T_Title
    \/ T_Done

SpecTurn == TurnInit /\ [][TurnNext]_vars

\* The turn of a user who has, besides, the preconfigured server sequentialthinking
\* disabled, with a provider that names the user's private tool or the tool of
\* that server.
DisabledPreConfigs == {[id |-> 3, user |-> Me, code |-> sequentialthinking, enabled |-> FALSE]}

DisabledCallNames ==
    { <<"a", "b", "1", "2", "_", "u">>,
      sequentialthinking \o Sep \o sequentialthinking \o <<"_", "p">> }

DisabledInit ==
    /\ mcp_configs = OtherConfigs \cup MyConfigs
    /\ mcp_tools = OtherTools \cup MyToolRows
    /\ pre_configs = OtherPreConfigs \cup MyPreConfigs \cup DisabledPreConfigs
    /\ toggle = [r \in Reqs |-> IdleToggle]
    /\ catalog = NoCatalog
    /\ tools_sent = FALSE
    /\ update_result = NoUpdate
    /\ ConversationsIdle
    /\ decisions = NoDecisions
    /\ gpc = "idle"
    /\ unfinished_call = NoCall
    /\ revents = <<>>
    /\ nchunks = 0
    /\ calls = <<>>
    /\ cur_doc = <<>>
    /\ provider_names = DisabledCallNames
    /\ stream_end = "no"
    /\ TurnIdle

SpecDisabled == DisabledInit /\ [][TurnNext]_vars

----------------------------------------------------------------------------
(* The specification of turns with refreshes of the private server between them *)

\* A provider that names the private tool of the user.
RefreshCallNames == { <<"a", "b", "1", "2", "_", "u">> }

RefreshInit ==
    /\ mcp_configs = OtherConfigs \cup MyConfigs
    /\ mcp_tools = OtherTools \cup MyToolRows
    /\ pre_configs = OtherPreConfigs \cup MyPreConfigs
    /\ toggle = [r \in Reqs |-> IdleToggle]
    /\ catalog = NoCatalog
    /\ tools_sent = FALSE
    /\ update_result = NoUpdate
    /\ ConversationsIdle
    /\ decisions = NoDecisions
    /\ gpc = "idle"
    /\ unfinished_call = NoCall
    /\ revents = <<>>
    /\ nchunks = 0
    /\ calls = <<>>
    /\ cur_doc = <<>>
    /\ provider_names = RefreshCallNames
    /\ stream_end = "no"
    /\ TurnIdle

\* PUT of the configuration of the user's server between a proposal and the
\* request that follows it: the server is out of reach, lists no tool, or lists
\* the tool it listed before.
R_Update ==
    /\ turn.pc \in {"done", "raised", "closed"}
    /\ messages # <<>>
    /\ messages[Len(messages)].role = "function_call"
    /\ \E listed \in {<<>>, <<<<"g">>>>}, reachable \in BOOLEAN :
           update_mcp_config(2, listed, [i \in 1..Len(listed) |-> <<"a", "b", "1", "2">>], reachable)

RefreshNext ==
    \/ TurnNext
    \/ R_Update

SpecRefresh == RefreshInit /\ [][RefreshNext]_vars

----------------------------------------------------------------------------
(* The specification of requests with a tool decision side by side *)

\* The call a first turn proposed: the private tool of the user.
ProposedCall ==
    [name |-> <<"a", "b", "1", "2", "_", "u">>, arguments |-> [type |-> "dict", value |-> <<>>]]

\* The conversation as that turn left it: the user message and the function_call
\* message with its ToolUse.
ProposedMessages ==
    <<Message("user", UserMessage, NoToolUse),
      Message("function_call", ProposedCall, MCPToolUse(ProposedCall.name, ProposedCall.arguments, 2))>>

DecisionsInit ==
    /\ mcp_configs = OtherConfigs \cup MyConfigs
    /\ mcp_tools = OtherTools \cup MyToolRows
    /\ pre_configs = OtherPreConfigs \cup MyPreConfigs
    /\ toggle = [r \in Reqs |-> IdleToggle]
    /\ catalog = NoCatalog
    /\ tools_sent = FALSE
    /\ update_result = NoUpdate
    /\ ConversationsIdle
    /\ StreamIdle
    /\ conversation = [exists |-> TRUE, title |-> <<>>]
    /\ messages = ProposedMessages
    /\ net = NoTraffic
    /\ out = <<>>
    /\ turn = NoTurn
    /\ decisions = NoDecisions

D_Read == \E r \in Reqs, tool_decision \in {"True", "False"} : ReadMessages(r, tool_decision)

D_CallTool == \E r \in Reqs, outcome \in ToolServerOutcomes : CallTool(r, outcome)

D_Commit == \E r \in Reqs : CommitResult(r)

DecisionsNext ==
    \/ D_Read
    \/ D_CallTool
    \/ D_Commit

SpecDecisions == DecisionsInit /\ [][DecisionsNext]_vars

\* The turn with a client that may disconnect during the event stream.
DisconnectNext ==
    \/ T_Request
    \/ T_HandleToolCall
    \/ T_Generate
    \/ T_Prelude
    \/ T_Open
    \/ T_TextChunk
    \/ T_StartChunk
    \/ T_StreamError
    \/ T_End
    \/ T_MessageDone
    \/ T_ToolCall
    \/ T_Title
    \/ T_Done
    \/ T_Disconnect

SpecDisconnect == TurnInit /\ [][DisconnectNext]_vars

----------------------------------------------------------------------------
(* The specification of the conversation service *)

ConversationsInit ==
    /\ CatalogIdle
    /\ StreamIdle
    /\ TurnIdle
    /\ ConversationsIdle
    /\ decisions = NoDecisions

ConversationsNext ==
    \/ V_Create
    \/ V_Delete
    \/ V_Get

SpecConversations == ConversationsInit /\ [][ConversationsNext]_vars

----------------------------------------------------------------------------
(* Claims about the stream reconstructor, checked under SpecStream *)

FunctionCallEvents == SelectSeq(revents, LAMBDA e : e.event = "function_call")

\* The function_call event the claims expect for a call the provider sent.
ExpectedCall(call) ==
    Event("function_call",
          [name |-> call.name,
           arguments |-> [type |-> json_loads(call.text).type,
                          value |-> json_loads(call.text).value]])

\* The text sent for a call is what FunctionCall takes: a JSON object, or null.
ArgumentsText(call) == json_loads(call.text).ok /\ json_loads(call.text).type \in {"dict", "null"}

\* C2: when the stream carried one named tool call whose argument text, however
\* it was cut into chunks, is the text of a JSON object, the reconstructor has
\* yielded one function_call event, with the name of the call and the parse of the
\* pieces put together in the order they came.
C2_OneCallRoundTrip ==
    (stream_end = "exhausted" /\ Len(calls) = 1 /\ calls[1].name # <<>> /\ ArgumentsText(calls[1]))
        => /\ gpc = "finished"
           /\ FunctionCallEvents = <<ExpectedCall(calls[1])>>

\* The scenario of C2: the text {"url":"h"} of tool fetch_u in three pieces.
C2_Witness ==
    /\ stream_end = "exhausted"
    /\ Len(calls) = 1
    /\ calls[1].pieces = 3
    /\ calls[1].text = <<"{", Q, "u", "r", "l", Q, ":", Q, "h", Q, "}">>
    /\ FunctionCallEvents =
           <<Event("function_call",
                   [name |-> <<"f", "e", "t", "c", "h", "_", "u">>,
                    arguments |-> [type |-> "dict",
                                   value |-> <<[key |-> <<"u", "r", "l">>,
                                                value |-> [type |-> "string", value |-> <<"h">>]]>>]])>>

\* C3: a call-start chunk that arrives while a call is buffered makes the
\* reconstructor yield the buffered call first, once, with its own name and text
\* (when that text is a JSON object), before any event of the chunk; and the call
\* that follows is yielded with its own name and text only.
C3_FlushBeforeNewCall ==
    /\ [][(Len(calls') = Len(calls) + 1 /\ calls # <<>> /\ ArgumentsText(calls[Len(calls)]))
            => /\ gpc' = "reading"
               /\ NewEvents # <<>>
               /\ NewEvents[1] = ExpectedCall(calls[Len(calls)])
               /\ \A i \in 2..Len(NewEvents) : NewEvents[i].event = "text"]_vars
    /\ []((stream_end = "exhausted" /\ Len(calls) = 2 /\ calls[2].name # <<>>
              /\ ArgumentsText(calls[1]) /\ ArgumentsText(calls[2]))
            => FunctionCallEvents = <<ExpectedCall(calls[1]), ExpectedCall(calls[2])>>)

\* A second call has started after a first one with argument text, and the first
\* was yielded before the text of the chunk that started the second.
C3_Witness ==
    /\ Len(calls) = 2
    /\ calls[1].text # <<>>
    /\ Len(revents) = 2
    /\ ArgumentsText(calls[1])
    /\ revents[1] = ExpectedCall(calls[1])
    /\ revents[2].event = "text"

----------------------------------------------------------------------------
(* Claims about the catalog, checked under SpecCatalog *)

Entries == catalog.entries

MyTools == {t \in mcp_tools : \E c \in mcp_configs : c.user = Me /\ c.id = t.config}

MyEnabledPreConfigs == {c \in pre_configs : c.user = Me /\ c.enabled}

\* C4: the catalog built by generate_chat_response never holds two entries with
\* the same name, whatever private servers were created and refreshed and whatever
\* preconfigured servers were toggled, two interleaved toggles of one code included.
C4_CatalogNamesUnique ==
    \A i \in 1..Len(Entries) : \A j \in 1..Len(Entries) :
        Entries[i].name = Entries[j].name => i = j

\* The built-in tool of a preconfigured server, as the claim C5 names it.
BuiltinToolOf(s) ==
    IF s = fetch THEN {fetch} ELSE IF s = sequentialthinking THEN {sequentialthinking} ELSE {}

\* C5: every private tool with stored code c is in the catalog under c followed by
\* _u and every built-in tool t of an enabled preconfigured server s under
\* s, __, t, _p; every entry is one of these, and remove_call_code_suffix gives back
\* the code the name was built from.
C5_CatalogNames ==
    (catalog.fresh /\ catalog.tool_calling) =>
        /\ \A t \in MyTools : \E i \in 1..Len(Entries) :
               /\ Entries[i].origin = "user"
               /\ Entries[i].row = t.id
               /\ Entries[i].name = t.code \o <<"_", "u">>
        /\ \A c \in MyEnabledPreConfigs : \A t \in BuiltinToolOf(c.code) :
               \E i \in 1..Len(Entries) :
                   /\ Entries[i].origin = "preconfigured"
                   /\ Entries[i].row = c.id
                   /\ Entries[i].name = c.code \o <<"_", "_">> \o t \o <<"_", "p">>
        /\ \A i \in 1..Len(Entries) :
               /\ Entries[i].origin = "user" =>
                      \E t \in MyTools :
                          /\ Entries[i].name = t.code \o <<"_", "u">>
                          /\ remove_call_code_suffix(Entries[i].name) = t.code
               /\ Entries[i].origin = "preconfigured" =>
                      \E c \in MyEnabledPreConfigs : \E t \in BuiltinToolOf(c.code) :
                          /\ Entries[i].name = c.code \o <<"_", "_">> \o t \o <<"_", "p">>
                          /\ remove_call_code_suffix(Entries[i].name) = c.code \o <<"_", "_">> \o t

\* The catalog of the scenario of C5: a private tool coded ab12 and the
\* preconfigured server fetch.
C5_Witness ==
    /\ catalog.fresh
    /\ \E i \in 1..Len(Entries) : Entries[i].name = <<"a", "b", "1", "2", "_", "u">>
    /\ \E i \in 1..Len(Entries) :
           Entries[i].name = <<"f", "e", "t", "c", "h", "_", "_", "f", "e", "t", "c", "h", "_", "p">>

\* C6: for every entry of the catalog exactly one of is_user_call_code and
\* is_preconfigured_call_code holds of its name, the one of the origin the entry was
\* built from, and the resolution of the turn, which branches on these two alone,
\* finds the tool the entry was built from.
C6_OriginBySuffix ==
    catalog.fresh =>
        \A i \in 1..Len(Entries) :
            LET e == Entries[i]
                found == resolve_tool_call(Me, e.name)
            IN  /\ is_user_call_code(e.name) # is_preconfigured_call_code(e.name)
                /\ is_user_call_code(e.name) <=> e.origin = "user"
                /\ is_preconfigured_call_code(e.name) <=> e.origin = "preconfigured"
                /\ found.kind = e.origin
                /\ found.code = e.code
                /\ e.origin = "user" => found.row = e.row

C6_Witness ==
    /\ catalog.fresh
    /\ \E i \in 1..Len(Entries) : \E j \in 1..Len(Entries) :
           /\ Entries[i].origin = "user"
           /\ Entries[j].origin = "preconfigured"
           /\ resolve_tool_call(Me, Entries[i].name).kind = "user"
           /\ resolve_tool_call(Me, Entries[j].name).kind = "preconfigured"

----------------------------------------------------------------------------
(* Claims about the turn, checked under SpecTurn *)

EventNames(events) == [i \in 1..Len(events) |-> events[i].event]

Count(events, name) == Cardinality({i \in 1..Len(events) : events[i].event = name})

NonDecreasing(ranks) == \A i \in 1..(Len(ranks) - 1) : ranks[i] <= ranks[i + 1]

\* The messages persisted since the request began.
NewMessages == SubSeq(messages, turn.base + 1, Len(messages))

\* handle_tool_call has returned in this request.
Decided ==
    /\ turn.tool_decision # "None"
    /\ NewMessages # <<>>
    /\ NewMessages[1].role = "function_call_result"

\* C1: a request that rejects a ToolUse opens no session to a tool server and
\* issues no call_tool, and the function_call_result it persists has empty content;
\* a request that approves one has issued exactly one call_tool when
\* handle_tool_call returns.
C1_RejectMakesNoCall ==
    /\ turn.tool_decision = "False" => (net.sessions = 0 /\ net.call_tool = 0)
    /\ (Decided /\ turn.tool_decision = "False") => NewMessages[1].content = <<>>
    /\ (Decided /\ turn.tool_decision = "True") => net.call_tool = 1

\* The provider rejected the credential in this turn, and the turn is over.
AuthErrorTurn ==
    /\ turn.pc = "done"
    /\ \E i \in 1..Len(revents) : revents[i].event = "auth_error"

\* C7: a turn in which the provider rejects the credential sends its caller one
\* auth_error event and ends with done, sends no message_done, and persists no
\* assistant message.
C7_AuthErrorEndsTurn ==
    AuthErrorTurn =>
        /\ Count(out, "auth_error") = 1
        /\ out[Len(out)].event = "done"
        /\ Count(out, "message_done") = 0
        /\ \A i \in 1..Len(NewMessages) : NewMessages[i].role # "assistant"

\* The order C8 gives: text and function_call events come together before
\* message_done.
RankInterleaved(name) ==
    CASE name = "user_message_id" -> 1
      [] name = "conversation_created" -> 2
      [] name \in {"message", "function_call", "auth_error", "api_error"} -> 3
      [] name = "message_done" -> 4
      [] name = "conversation_title_updated" -> 5
      [] OTHER -> 6

Rank(name) ==
    CASE name = "user_message_id" -> 1
      [] name = "conversation_created" -> 2
      [] name \in {"message", "auth_error", "api_error"} -> 3
      [] name = "message_done" -> 4
      [] name = "function_call" -> 5
      [] name = "conversation_title_updated" -> 6
      [] OTHER -> 7

Resolved(tool_calls) ==
    SelectSeq(tool_calls, LAMBDA c : resolve_tool_call(Me, c.name).kind \in {"user", "preconfigured"})

DataOf(events, name) ==
    LET chosen == SelectSeq(events, LAMBDA e : e.event = name)
    IN  [i \in 1..Len(chosen) |-> chosen[i].data]

IsPrefix(s, t) == Len(s) <= Len(t) /\ s = SubSeq(t, 1, Len(s))

AfterPrelude == turn.pc \in {"streaming", "streamed", "tool_calls", "finish", "done"}

NoFunctionCall ==
    /\ Entries = <<>>
    /\ ~tools_sent
    /\ Count(out, "function_call") = 0
    /\ \A i \in 1..Len(NewMessages) : NewMessages[i].role # "function_call"

\* C9 as stated: with tool calling off the catalog is empty, no tools are sent, no
\* function_call event is sent and no function_call message persisted, and the
\* events of a new conversation are user_message_id, conversation_created, message
\* events, message_done, an optional conversation_title_updated and done.
C9_ToolCallingOff ==
    (AfterPrelude /\ ~turn.tool_calling) =>
        /\ NoFunctionCall
        /\ (turn.pc = "done" /\ turn.is_new_conversation) =>
               /\ NonDecreasing([i \in 1..Len(out) |-> Rank(out[i].event)])
               /\ \A i \in 1..Len(out) : out[i].event \notin {"auth_error", "api_error"}
               /\ Count(out, "user_message_id") = 1
               /\ Count(out, "conversation_created") = 1
               /\ Count(out, "message_done") = 1
               /\ Count(out, "conversation_title_updated") <= 1
               /\ Count(out, "done") = 1

\* The order of C9 with the error events: they end the text.
RankOff(name) ==
    CASE name = "user_message_id" -> 1
      [] name = "conversation_created" -> 2
      [] name = "message" -> 3
      [] name \in {"auth_error", "api_error"} -> 4
      [] name = "message_done" -> 5
      [] name = "conversation_title_updated" -> 6
      [] name = "done" -> 7
      [] OTHER -> 0

\* C9, amended: with tool calling off the catalog is empty, no tools are sent, no
\* function_call event is sent and no function_call message persisted; the events
\* of a finished turn of a new conversation that came without a tool decision are
\* user_message_id, conversation_created, the message events, at most one
\* auth_error or api_error, message_done only if the text is not empty and always
\* then when there was no error, an optional conversation_title_updated, and done.
C9_ToolCallingOffAmended ==
    (AfterPrelude /\ ~turn.tool_calling) =>
        /\ NoFunctionCall
        /\ (turn.pc = "done" /\ turn.is_new_conversation /\ turn.tool_decision = "None") =>
               /\ NonDecreasing([i \in 1..Len(out) |-> RankOff(out[i].event)])
               /\ Count(out, "user_message_id") = 1
               /\ Count(out, "conversation_created") = 1
               /\ Count(out, "auth_error") + Count(out, "api_error") <= 1
               /\ Count(out, "message_done") <= 1
               /\ Count(out, "message_done") = 1 => turn.content # <<>>
               /\ (turn.content # <<>> /\ Count(out, "auth_error") + Count(out, "api_error") = 0)
                      => Count(out, "message_done") = 1
               /\ Count(out, "conversation_title_updated") <= 1
               /\ Count(out, "done") = 1

\* A finished turn of a new conversation with tool calling off, text and a title.
C9_Witness ==
    /\ turn.pc = "done"
    /\ ~turn.tool_calling
    /\ EventNames(out) = <<"user_message_id", "conversation_created", "message", "message",
                           "message_done", "conversation_title_updated", "done">>

\* C10: every ToolUse has one of the states pending, approved and rejected from
\* the moment add_message_to_conversation persists it with its function_call
\* message, where its state is pending.
C10_ToolUseStates ==
    \A i \in 1..Len(messages) :
        messages[i].tool_use.present =>
            /\ messages[i].tool_use.state \in {"pending", "approved", "rejected"}
            /\ (i > turn.base /\ messages[i].role = "function_call")
                   => messages[i].tool_use.state = "pending"

\* A step assigns the ToolUse of message i a state.
StateAssigned(i) ==
    /\ i <= Len(messages')
    /\ messages[i].tool_use.present
    /\ messages'[i].tool_use.present
    /\ messages'[i].tool_use.state # messages[i].tool_use.state

\* C11: over the turns of a conversation the state of a ToolUse changes only from
\* pending to approved or from pending to rejected, only in a turn that carries a
\* tool decision, and a ToolUse that is approved or rejected is given no state
\* again.
C11_StateDecidedOnce ==
    [][\A i \in 1..Len(messages) :
           StateAssigned(i) =>
               /\ messages[i].tool_use.state = "pending"
               /\ messages'[i].tool_use.state \in {"approved", "rejected"}
               /\ turn.tool_decision # "None"]_vars

\* The indices in out of the function_call events.
FunctionCallsSent == {i \in 1..Len(out) : out[i].event = "function_call"}

\* C12: every function_call event sent to the caller names a function_call message
\* that is in the store, persisted in this turn together with a ToolUse of the
\* proposed name and arguments, and the event is of that message alone: it is sent
\* in no state in which the message is not stored, and two events are of two
\* messages.
C12_FunctionCallAfterPersist ==
    /\ \A i \in FunctionCallsSent :
           /\ out[i].data \in (turn.base + 1)..Len(messages)
           /\ LET m == messages[out[i].data]
              IN  /\ m.role = "function_call"
                  /\ m.tool_use.present
                  /\ m.tool_use.name = m.content.name
                  /\ m.tool_use.args = m.content.arguments
                  /\ \E k \in 1..Len(turn.tool_calls) : turn.tool_calls[k] = m.content
    /\ \A i \in FunctionCallsSent : \A j \in FunctionCallsSent :
           out[i].data = out[j].data => i = j

\* Two proposals of a turn have been persisted and sent.
C12_Witness ==
    /\ Cardinality(FunctionCallsSent) = 2
    /\ \A i \in FunctionCallsSent : messages[out[i].data].tool_use.present
    /\ messages[Len(messages)].role = "function_call"
    /\ out[Len(out)].event = "function_call"

\* The request came with a tool decision to a conversation that ends with a
\* function_call message.
DecisionTurn ==
    /\ turn.tool_decision # "None"
    /\ turn.base > 0
    /\ messages[turn.base].role = "function_call"

\* The text of the text items of what call_tool returned, in their order.
ReturnedText ==
    LET items == SelectSeq(net.returned, LAMBDA c : c.type = "text")
    IN  Concat([i \in 1..Len(items) |-> items[i].text])

\* C13: in a turn with a tool decision on a conversation that ends with a
\* function_call message, from the moment generate_chat_response is called, and so
\* before the completion is opened, the function_call_result message is stored
\* right after that function_call message with the text the tool server returned,
\* and the messages handed to the provider are the messages stored when the
\* request came, in creation order, and then one function_call_result entry with
\* that text.
C13_ResultBeforeCompletion ==
    (DecisionTurn /\ gpc # "idle") =>
        /\ Len(messages) > turn.base
        /\ messages[turn.base + 1].role = "function_call_result"
        /\ messages[turn.base + 1].content = ReturnedText
        /\ Len(turn.formatted_messages) = turn.base + 1
        /\ \A i \in 1..turn.base :
               /\ turn.formatted_messages[i].role = messages[i].role
               /\ turn.formatted_messages[i].content = messages[i].content
        /\ turn.formatted_messages[turn.base + 1] =
               [role |-> "function_call_result", content |-> ReturnedText]

\* An approved call whose server returned text, an image and text again, with the
\* completion opened.
C13_Witness ==
    /\ DecisionTurn
    /\ turn.tool_decision = "True"
    /\ gpc = "reading"
    /\ Len(net.returned) = 3
    /\ turn.formatted_messages[Len(turn.formatted_messages)].content = <<"r", "s">>

C15_UnknownConversation ==
    /\ [][(turn'.n = turn.n + 1 /\ turn'.conversation_id = "unknown") =>
              /\ turn'.pc = "raised"
              /\ turn'.http_status = "404"
              /\ messages' = messages
              /\ conversation' = conversation]_vars
    /\ [](turn.conversation_id = "unknown" =>
              /\ turn.pc = "raised"
              /\ Len(messages) = turn.base
              /\ net = NoTraffic
              /\ gpc = "idle"
              /\ out = <<>>)

\* A request with an unknown id and a tool decision came to a conversation that
\* ends with a function_call message, and was refused.
C15_Witness ==
    /\ turn.conversation_id = "unknown"
    /\ turn.tool_decision = "True"
    /\ turn.http_status = "404"
    /\ messages # <<>>
    /\ messages[Len(messages)].role = "function_call"

\* The request was not refused: its conversation was created or found.
Accepted == turn.pc # "idle" /\ turn.http_status = "none"

\* The messages of role user persisted since the request began.
UserMessagesPersisted == {i \in (turn.base + 1)..Len(messages) : messages[i].role = "user"}

\* C16: a request that is not refused persists a user message, one, the first
\* message of the turn, if and only if it came without a tool decision; the
\* user_message_id event is sent, once and first, if and only if that message was
\* persisted, and carries the id of that message.
C16_UserMessage ==
    /\ Accepted =>
           /\ turn.tool_decision = "None" <=> UserMessagesPersisted # {}
           /\ UserMessagesPersisted \subseteq {turn.base + 1}
           /\ \A i \in UserMessagesPersisted : messages[i].content = UserMessage
    /\ \A i \in 1..Len(out) :
           out[i].event = "user_message_id" =>
               /\ i = 1
               /\ out[i].data \in UserMessagesPersisted
    /\ (Accepted /\ AfterPrelude) =>
           (Count(out, "user_message_id") = 1 <=> UserMessagesPersisted # {})

\* The second turn of a conversation came without a tool decision, and its
\* user_message_id event names the user message it persisted.
C16_Witness ==
    /\ turn.n = 2
    /\ turn.base > 0
    /\ turn.tool_decision = "None"
    /\ out # <<>>
    /\ out[1] = Event("user_message_id", turn.base + 1)
    /\ messages[turn.base + 1].role = "user"
    /\ turn.pc = "done"

\* The generator of the turn has returned and the lines after the loop of
\* event_generator have run.
StreamOver == gpc = "finished" /\ turn.pc # "streamed"

\* The assistant messages persisted since the request began.
AssistantMessagesPersisted ==
    {i \in (turn.base + 1)..Len(messages) : messages[i].role = "assistant"}

\* C17: once the stream of the turn has ended, an assistant message is stored if
\* and only if some text delta was not empty; there is at most one, its content is
\* the data of the message events sent in the turn put together in their order,
\* and message_done is sent once, for that message, which is then stored; before
\* the stream has ended no assistant message is stored and no message_done sent.
C17_AssistantMessage ==
    LET deltas == DataOf(out, "message")
        done == DataOf(out, "message_done")
    IN  /\ Cardinality(AssistantMessagesPersisted) <= 1
        /\ \A i \in AssistantMessagesPersisted : messages[i].content = Concat(deltas)
        /\ Len(done) = Cardinality(AssistantMessagesPersisted)
        /\ \A k \in 1..Len(done) : done[k] \in AssistantMessagesPersisted
        /\ AssistantMessagesPersisted # {} => StreamOver
        /\ StreamOver =>
               (AssistantMessagesPersisted # {} <=> \E k \in 1..Len(deltas) : deltas[k] # <<>>)

\* The stream has come to its end, two deltas t and t were sent and the assistant
\* message tt is stored.
C17_Witness ==
    /\ StreamOver
    /\ stream_end = "exhausted"
    /\ DataOf(out, "message") = << <<"t">>, <<"t">> >>
    /\ \E i \in AssistantMessagesPersisted : messages[i].content = <<"t", "t">>
    /\ Count(out, "message_done") = 1

\* The step of the title: generate_and_set_conversation_title is called and returns
\* or raises.
TitleStep ==
    /\ turn.pc = "tool_calls"
    /\ turn.next > Len(turn.tool_calls)
    /\ TitleWanted
    /\ turn' # turn

\* C18: whatever the completion of the title does, the step of the title does not
\* fail the turn: it leaves the events sent so far and the messages as they are,
\* adds at most a conversation_title_updated event, and the one step that follows
\* it sends done, with which the events of the turn end.
C18_TitleNeverFailsTurn ==
    /\ [][TitleStep =>
              /\ turn'.pc = "finish"
              /\ IsPrefix(out, out')
              /\ Len(out') <= Len(out) + 1
              /\ \A i \in (Len(out) + 1)..Len(out') : out'[i].event = "conversation_title_updated"
              /\ messages' = messages]_vars
    /\ [][(turn.pc = "finish" /\ turn' # turn) =>
              /\ turn'.pc = "done"
              /\ out' = Append(out, Event("done", <<>>))]_vars
    /\ [](turn.pc = "finish" => ENABLED T_Done)

\* The completion of the title raised after a part of the title: the conversation
\* has no title, and the turn ended with done.
C18_Witness ==
    /\ turn.pc = "done"
    /\ turn.generated_title = <<"T">>
    /\ conversation.title = <<>>
    /\ EventNames(out) = <<"user_message_id", "conversation_created", "message", "message_done",
                           "conversation_title_updated", "done">>

\* C19: over the turns of a conversation its title is set at most once: a step
\* changes it only from no title to a title, only in the turn of the request that
\* created the conversation, and only when that turn has taken text or a tool call
\* from the provider; a turn on a conversation that existed sends no
\* conversation_title_updated event and leaves the title as it is.
C19_TitleSetOnce ==
    /\ [][conversation'.title # conversation.title =>
              /\ conversation.title = <<>>
              /\ conversation'.title # <<>>
              /\ turn.is_new_conversation
              /\ turn.conversation_id = "None"
              /\ turn.content # <<>> \/ Len(turn.tool_calls) > 0]_vars
    /\ [][(turn'.n = turn.n + 1 /\ turn'.is_new_conversation) => ~conversation.exists]_vars
    /\ [](~turn.is_new_conversation => Count(out, "conversation_title_updated") = 0)

\* The first turn gave the conversation its title; the second, on the conversation
\* as it then was, got text from the provider, ended, and the title is the same.
C19_Witness ==
    /\ turn.n = 2
    /\ turn.conversation_id = "known"
    /\ turn.pc = "done"
    /\ turn.content # <<>>
    /\ conversation.title = <<"T">>

\* The step flushes the buffered call: a call-start chunk arrives while a call is
\* buffered, or the stream ends with a named call buffered.
FlushAt ==
    /\ gpc = "reading"
    /\ unfinished_call.open
    /\ \/ Len(calls') = Len(calls) + 1
       \/ stream_end = "no" /\ stream_end' = "exhausted" /\ unfinished_call.name # <<>>

\* The buffered argument text is not the text of a JSON value.
BadJson == ~json_loads(unfinished_call.arguments).ok

\* C20: when the buffered argument text is not valid JSON at a flush, the
\* reconstructor raises: the step yields no event, neither for the buffered call nor
\* of the chunk that came, and sends and persists nothing; after a raise the
\* reconstructor yields no event and the turn sends no event and persists no
\* message, so that no call of the aborted sequence is persisted as a proposal,
\* whatever its arguments.
C20_MalformedArgumentsAbort ==
    /\ [][(FlushAt /\ BadJson) =>
              /\ gpc' = "raised"
              /\ revents' = revents
              /\ out' = out
              /\ messages' = messages]_vars
    /\ [][(gpc = "raised" /\ turn'.n = turn.n) =>
              /\ gpc' = "raised"
              /\ revents' = revents
              /\ out' = out
              /\ messages' = messages]_vars
    /\ [](gpc = "raised" =>
              /\ turn.pc \in {"idle", "raised"}
              /\ Count(out, "function_call") = 0
              /\ \A i \in 1..Len(NewMessages) : NewMessages[i].role # "function_call")

\* A first call with arguments {} was yielded and kept, the stream ended with a
\* second call whose text is {, and the turn was aborted.
C20_Witness ==
    /\ gpc = "raised"
    /\ turn.pc = "raised"
    /\ stream_end = "exhausted"
    /\ unfinished_call.arguments = <<"{">>
    /\ Len(turn.tool_calls) = 1
    /\ Len(FunctionCallEvents) = 1

\* The generator of the turn has yielded an auth_error or api_error event.
ErrorEnded == \E i \in 1..Len(revents) : revents[i].event \in {"auth_error", "api_error"}

\* The function_call messages persisted since the request began, in creation order.
ProposalsPersisted ==
    SelectSeq([i \in 1..Len(NewMessages) |-> [id |-> turn.base + i, message |-> NewMessages[i]]],
              LAMBDA r : r.message.role = "function_call")

\* The calls the loop over tool_calls has dealt with.
CallsPassed ==
    SubSeq(turn.tool_calls, 1,
           IF turn.next - 1 <= Len(turn.tool_calls) THEN turn.next - 1 ELSE Len(turn.tool_calls))

\* C21: an auth_error or api_error event does not fail the turn and takes none of
\* the calls the reconstructor had completed before it away: they are all in
\* tool_calls when the loop over them begins, and each of them that the loop has
\* dealt with and that resolved to a tool has its function_call message, with a
\* ToolUse of its name and arguments, and its function_call event, in the order of
\* the calls.
C21_CallsBeforeErrorPersisted ==
    /\ [][(turn.pc = "streaming" /\ ~ErrorEnded /\ ErrorEnded') =>
              /\ turn'.pc = "streamed"
              /\ turn'.tool_calls = DataOf(revents', "function_call")]_vars
    /\ []((ErrorEnded /\ gpc = "finished" /\ turn.pc # "streamed") =>
              /\ turn.tool_calls = DataOf(revents, "function_call")
              /\ Len(ProposalsPersisted) = Len(Resolved(CallsPassed))
              /\ \A k \in 1..Len(ProposalsPersisted) :
                     /\ ProposalsPersisted[k].message.content = Resolved(CallsPassed)[k]
                     /\ ProposalsPersisted[k].message.tool_use.present
                     /\ ProposalsPersisted[k].message.tool_use.name = Resolved(CallsPassed)[k].name
                     /\ ProposalsPersisted[k].message.tool_use.args = Resolved(CallsPassed)[k].arguments
              /\ DataOf(out, "function_call") =
                     [k \in 1..Len(ProposalsPersisted) |-> ProposalsPersisted[k].id]
              /\ turn.pc = "done" => CallsPassed = turn.tool_calls)

\* The provider rejected the credential after a call of fetch__fetch_p had been
\* completed; the call is persisted and sent, no assistant message is, and the turn
\* is over.
C21_Witness ==
    /\ turn.pc = "done"
    /\ EventNames(revents) = <<"function_call", "auth_error">>
    /\ Len(ProposalsPersisted) = 1
    /\ ProposalsPersisted[1].message.tool_use.name = fetch \o Sep \o fetch \o <<"_", "p">>
    /\ Count(out, "function_call") = 1
    /\ Count(out, "auth_error") = 1

\* The call the loop over tool_calls is at.
CallAt == turn.tool_calls[turn.next]

\* The loop over tool_calls is at a call for which the resolution finds no tool: its
\* name has neither suffix, or the rows of the user hold no tool of that name.
AtUnresolved ==
    /\ turn.pc = "tool_calls"
    /\ turn.next <= Len(turn.tool_calls)
    /\ resolve_tool_call(Me, CallAt.name).kind = "none"

\* C22: a proposal for which the resolution finds no tool is skipped, it alone: the
\* step persists and sends nothing and the loop goes on with the next call; at
\* every point the function_call messages and events of the turn are those of the
\* calls dealt with that resolved, in their order; the turn is never failed at such
\* a proposal, and a turn that ends ends with done, all calls dealt with.
C22_UnresolvedSkipped ==
    /\ [][(AtUnresolved /\ turn' # turn) =>
              /\ turn'.pc = "tool_calls"
              /\ turn'.next = turn.next + 1
              /\ messages' = messages
              /\ out' = out]_vars
    /\ [](turn.pc \in {"tool_calls", "finish", "done"} =>
              /\ [k \in 1..Len(ProposalsPersisted) |-> ProposalsPersisted[k].message.content]
                     = Resolved(CallsPassed)
              /\ DataOf(out, "function_call") =
                     [k \in 1..Len(ProposalsPersisted) |-> ProposalsPersisted[k].id])
    /\ []((turn.pc = "raised" /\ gpc = "finished") =>
              /\ turn.next <= Len(turn.tool_calls)
              /\ resolve_tool_call(Me, CallAt.name).kind # "none")
    /\ [](turn.pc = "done" =>
              /\ CallsPassed = turn.tool_calls
              /\ out[Len(out)].event = "done")

\* The provider proposed the other user's tool and then the user's own: the first
\* was skipped, the second persisted and sent, and the turn ended with done.
C22_Witness ==
    /\ turn.pc = "done"
    /\ Len(turn.tool_calls) = 2
    /\ turn.tool_calls[1].name = <<"k", "_", "p", "_", "u">>
    /\ turn.tool_calls[2].name = <<"a", "b", "1", "2", "_", "u">>
    /\ Len(ProposalsPersisted) = 1
    /\ ProposalsPersisted[1].message.content = turn.tool_calls[2]
    /\ Count(out, "function_call") = 1
    /\ out[Len(out)].event = "done"

\* C23: whatever name the provider gave the call, the resolution in the loop over
\* tool_calls either finds a tool or skips the proposal: a pass at a call for which
\* no tool is found goes on to the next call, and never raises out of the turn.
C23_ResolutionNeverRaises ==
    [][(/\ turn.pc = "tool_calls"
        /\ turn.next <= Len(turn.tool_calls)
        /\ resolve_tool_call(Me, CallAt.name).kind \notin {"user", "preconfigured"}
        /\ turn' # turn) =>
           /\ turn'.pc = "tool_calls"
           /\ turn'.next = turn.next + 1]_vars

\* C24: when update_tools cannot reach the tool server it returns an error result,
\* and the rows of mcp_tools, those of that server among them, are what they were
\* before: none deleted, none added.
C24_UnreachableKeepsRows ==
    /\ [](\A cfg \in {c.id : c \in mcp_configs}, listed \in ListedChoices :
              \A codes \in CodeChoices(Len(listed)) :
                  LET res == update_tools(mcp_tools, cfg, listed, codes, FALSE)
                  IN  /\ res.result = "Err"
                      /\ {t \in res.rows : t.config = cfg} = {t \in mcp_tools : t.config = cfg}
                      /\ res.rows = mcp_tools)
    /\ [][(update_result' # update_result /\ update_result'.result = "Err") =>
              /\ mcp_tools' = mcp_tools
              /\ mcp_configs' = mcp_configs]_vars
    /\ [][(mcp_tools' # mcp_tools) => update_result'.result = "Ok"]_vars

\* The refresh of a server of the user that has tools stored failed to reach it:
\* the error result came back and the tools are still stored.
C24_Witness ==
    /\ update_result.result = "Err"
    /\ \E c \in mcp_configs :
           /\ c.user = Me
           /\ c.id = update_result.config
           /\ \E t \in mcp_tools : t.config = c.id

\* The client has disconnected from the event stream of the turn.
Closed == turn.pc = "closed"

\* A row as add_message_to_conversation writes it: a function_call message has its
\* ToolUse, of the name and arguments of the call, and no other message has one.
RowComplete(m) ==
    IF m.role = "function_call"
    THEN /\ m.tool_use.present
         /\ m.tool_use.name = m.content.name
         /\ m.tool_use.args = m.content.arguments
    ELSE ~m.tool_use.present

\* C25: wherever in the event stream the client disconnects, the rows written in
\* the turn are complete: the user message of a turn without a decision is there,
\* an assistant message holds the whole text of a stream read to its end, every
\* function_call message has its ToolUse; and from then on nothing is written and
\* the provider stream is not read, until the next request.
C25_DisconnectLeavesCompleteRows ==
    /\ [](Closed =>
              /\ \A i \in 1..Len(messages) : RowComplete(messages[i])
              /\ turn.tool_decision = "None" =>
                     /\ NewMessages # <<>>
                     /\ NewMessages[1] = Message("user", UserMessage, NoToolUse)
              /\ \A i \in 1..Len(NewMessages) :
                     NewMessages[i].role = "assistant" =>
                         /\ gpc = "finished"
                         /\ NewMessages[i].content = turn.content
              /\ [k \in 1..Len(ProposalsPersisted) |-> ProposalsPersisted[k].message.content]
                     = Resolved(CallsPassed))
    /\ [][Closed =>
              \/ /\ messages' = messages
                 /\ conversation' = conversation
                 /\ <<gpc, unfinished_call, revents, nchunks>>' =
                        <<gpc, unfinished_call, revents, nchunks>>
              \/ turn'.n = turn.n + 1]_vars

\* The client left while the loop over tool_calls had persisted the first of two
\* calls: that function_call message is there with its ToolUse, the second is not.
C25_Witness ==
    /\ Closed
    /\ Len(turn.tool_calls) = 2
    /\ turn.next = 2
    /\ Len(ProposalsPersisted) = 1
    /\ ProposalsPersisted[1].message.tool_use.present
    /\ Resolved(turn.tool_calls) = turn.tool_calls

\* The conversations created for a user and not deleted since.
Living == conversation_log.created \ conversation_log.deleted

\* C26: after any sequence of create_conversation and delete_conversation,
\* get_conversation_by_id_and_user_id(id, user) returns the conversation exactly
\* when one of that id was created for that user and not deleted since; for an
\* id never given, another user's conversation and a deleted one it returns None.
C26_GetAfterCreateDelete ==
    /\ [](\A conversation_id \in AskedIds, user_id \in Users :
              LET result == scalars_first(conversations, conversation_id, user_id)
              IN  /\ result.found <=> [id |-> conversation_id, user_id |-> user_id] \in Living
                  /\ result.found => result.id = conversation_id /\ result.user_id = user_id)
    /\ [][conversation_log'.got # conversation_log.got =>
              LET got == conversation_log'.got
              IN  /\ got.result.found <=> [id |-> got.id, user_id |-> got.user_id] \in Living
                  /\ got.result.found => got.result.id = got.id /\ got.result.user_id = got.user_id
                  /\ ~got.result.found => got.result = NotFoundConversation]_vars

\* The user has a conversation deleted and one living, the other user has one
\* living, and the user asked for the other user's and got None.
C26_Witness ==
    /\ \E c \in conversation_log.deleted : c.user_id = Me
    /\ \E c \in Living : c.user_id = Me
    /\ conversation_log.got.asked
    /\ conversation_log.got.user_id = Me
    /\ [id |-> conversation_log.got.id, user_id |-> Other] \in Living
    /\ ~conversation_log.got.result.found

\* The provider stream ends while a call is buffered of which a name or some
\* argument text was received.
EndWithBuffer ==
    /\ gpc = "reading"
    /\ stream_end = "no"
    /\ stream_end' = "exhausted"
    /\ unfinished_call.open
    /\ unfinished_call.name # <<>> \/ unfinished_call.arguments # <<>>

\* C27: at the end of the provider stream a buffered call of which a name or any
\* argument text was received is flushed as a mid-stream flush would flush it: the
\* function_call event of its name and parsed arguments is yielded, or the error of
\* the parse is raised; buffered argument text is never dropped without either.
C27_EndFlushesEveryOpenBuffer ==
    [][EndWithBuffer =>
           /\ revents' = revents \o Flush(unfinished_call).events
           /\ gpc' = (IF Flush(unfinished_call).raised = "no" THEN "finished" ELSE "raised")
           /\ unfinished_call.arguments # <<>> =>
                  \/ Len(revents') = Len(revents) + 1
                  \/ gpc' = "raised"]_vars

\* The positions of the auth_error and api_error events the generator yielded.
ErrorPositions == {i \in 1..Len(revents) : revents[i].event \in {"auth_error", "api_error"}}

\* C28: in the events of _generate_litellm_response an auth_error or api_error
\* event is terminal: there is at most one such event, it is the last event, the
\* generator has returned when it is there, and no step adds an event after it;
\* so it is when acompletion fails and when the reading of a chunk fails.
C28_ErrorEventTerminal ==
    /\ [](/\ Cardinality(ErrorPositions) <= 1
          /\ \A i \in ErrorPositions : i = Len(revents)
          /\ ErrorPositions # {} => gpc = "finished" /\ stream_end = "error")
    /\ [][ErrorPositions # {} => revents' = revents /\ gpc' = gpc]_vars
    /\ [][(stream_end = "no" /\ stream_end' = "error" /\ gpc' = "finished") =>
              /\ Len(revents') = Len(revents) + 1
              /\ revents'[Len(revents')].event \in {"auth_error", "api_error"}
              /\ SubSeq(revents', 1, Len(revents)) = revents]_vars

\* The reading failed after a text and a function_call event had been yielded: the
\* api_error event came third and last.
C28_Witness ==
    /\ gpc = "finished"
    /\ nchunks >= 2
    /\ EventNames(revents) = <<"text", "function_call", "api_error">>

\* The function_call messages the conversation holds.
ProposalsHeld == SelectSeq(messages, LAMBDA m : m.role = "function_call")

\* C29: in a turn the tool server is invoked for at most one ToolUse: at most one
\* session is opened and at most one call_tool issued, by handle_tool_call, in a
\* turn with a decision and before the provider completion is opened, however many
\* function_call messages the conversation holds or the provider stream brings.
C29_OneInvocationPerTurn ==
    /\ [](/\ net.sessions <= 1
          /\ net.call_tool <= net.sessions
          /\ net.sessions > 0 => turn.tool_decision # "None")
    /\ [][net' # net =>
              \/ /\ turn.pc = "tool_decision"
                 /\ turn'.n = turn.n
                 /\ net = NoTraffic
                 /\ net'.sessions = 1
                 /\ gpc' = gpc
                 /\ revents' = revents
              \/ /\ turn'.n = turn.n + 1
                 /\ net' = NoTraffic]_vars
    /\ [][(turn.pc \in {"generate", "prelude", "streaming", "streamed", "tool_calls", "finish"}
           /\ turn'.n = turn.n) => net' = net]_vars

\* A decision turn on a conversation that held two proposals: the tool was called
\* once, the provider proposed a further call, which was persisted, and the turn
\* ended.
C29_Witness ==
    /\ turn.pc = "done"
    /\ turn.tool_decision # "None"
    /\ net.sessions = 1
    /\ net.call_tool = 1
    /\ Len(ProposalsHeld) = 3
    /\ Len(ProposalsPersisted) = 1

\* The decision turn failed at the tool server: the session was opened for it and
\* the turn raised before any completion.
ToolServerFailed ==
    /\ turn.pc = "raised"
    /\ turn.tool_decision # "None"
    /\ net.sessions = 1
    /\ gpc = "idle"

\* C30: when the session to the tool server or the call of the tool fails in a
\* decision turn, the ToolUse stays pending in the store, no function_call_result
\* message is persisted, no provider completion is opened, and the function_call
\* message is still the last message for a later turn to see.
C30_FailedCallLeavesPending ==
    /\ [][(turn.pc = "tool_decision" /\ net'.sessions = net.sessions + 1
           /\ turn'.pc = "raised") =>
              /\ messages' = messages
              /\ gpc' = "idle"
              /\ out' = out]_vars
    /\ [](ToolServerFailed =>
              /\ NewMessages = <<>>
              /\ messages # <<>>
              /\ messages[Len(messages)].role = "function_call"
              /\ messages[Len(messages)].tool_use.present
              /\ messages[Len(messages)].tool_use.state = "pending"
              /\ \A i \in 1..Len(messages) :
                     messages[i].role = "function_call_result" => i < Len(messages))
    /\ [][(ToolServerFailed /\ turn'.n = turn.n + 1) =>
              /\ turn'.base = Len(messages)
              /\ messages'[turn'.base].role = "function_call"
              /\ turn'.tool_decision # "None" => turn'.pc \in {"tool_decision", "raised"}]_vars

\* The role and the marker the adapter is to give an entry of the history.
AdaptedRole(role) == IF role = "user" THEN "user" ELSE "assistant"

AdaptedWrap(role) ==
    CASE role = "function_call" -> "tool_call_parameters"
      [] role = "function_call_result" -> "tool_call_response"
      [] OTHER -> "none"

\* C31: the adapter gives the provider one leading system entry and then one entry
\* for each entry of the history, in the order of the history: user as user,
\* assistant as assistant, function_call as an assistant entry with the call in
\* <tool_call_parameters>, function_call_result as an assistant entry with the
\* text in <tool_call_response>; none is dropped, none moved.
C31_HistoryMappedInOrder ==
    LET history == turn.formatted_messages
        sent == provider_messages(history)
    IN  /\ Len(sent) = Len(history) + 1
        /\ sent[1].role = "system"
        /\ \A i \in 1..Len(history) :
               /\ history[i].role \in {"user", "assistant", "function_call", "function_call_result"}
               /\ sent[i + 1].role = AdaptedRole(history[i].role)
               /\ sent[i + 1].wrap = AdaptedWrap(history[i].role)
               /\ sent[i + 1].content = history[i].content
        /\ \A i \in 2..Len(sent) : sent[i].role # "system"

\* The completion of a decision turn was opened on a history of a user message, an
\* assistant message, a function_call and its result.
C31_Witness ==
    /\ gpc = "reading"
    /\ turn.pc = "streaming"
    /\ [i \in 1..Len(turn.formatted_messages) |-> turn.formatted_messages[i].role]
           = <<"user", "assistant", "function_call", "function_call_result">>
    /\ [i \in 1..5 |-> provider_messages(turn.formatted_messages)[i].wrap]
           = <<"none", "none", "none", "tool_call_parameters", "tool_call_response">>

\* handle_tool_call has the answer of call_tool and returns.
CallReturns ==
    /\ turn.pc = "tool_decision"
    /\ net'.call_tool = net.call_tool + 1
    /\ turn'.pc = "generate"

\* C32: the text handle_tool_call returns and persists is the texts of the text
\* items of the tool response, joined in the order of the response; an item that is
\* not text adds nothing and raises nothing; a response without text items gives
\* the empty text, and the function_call_result message is persisted with it.
C32_ResultTextFlattened ==
    /\ [][CallReturns =>
              /\ Len(messages') = Len(messages) + 1
              /\ messages'[Len(messages')].role = "function_call_result"
              /\ messages'[Len(messages')].content = ReturnedText'
              /\ turn'.formatted_messages[Len(turn'.formatted_messages)].content = ReturnedText'
              /\ (\A i \in 1..Len(net'.returned) : net'.returned[i].type # "text") =>
                     messages'[Len(messages')].content = <<>>]_vars
    /\ [][(turn.pc = "tool_decision" /\ net'.returned # <<>>) => turn'.pc = "generate"]_vars
    /\ [](Decided =>
              /\ net.returned = <<TextContent, ImageContent, OtherTextContent>> =>
                     NewMessages[1].content = <<"r", "s">>
              /\ net.returned = <<ImageContent>> => NewMessages[1].content = <<>>)

\* The tool answered with an image alone: the function_call_result message was
\* persisted with the empty text and the completion opened.
C32_Witness ==
    /\ Decided
    /\ net.returned = <<ImageContent>>
    /\ NewMessages[1].content = <<>>
    /\ gpc = "reading"

\* The message of an api_error event is within the text.
HoldsErrorData(text) ==
    \E i \in 1..Len(text) : \E j \in i..Len(text) : SubSeq(text, i, j) = ApiErrorMessage

\* C33: the title that generate_and_set_conversation_title persists and that is
\* sent in conversation_title_updated is made of the text events of the title
\* completion only: the data of an api_error or auth_error event is never part of
\* the title of the conversation.
C33_TitleFromTextOnly ==
    /\ ~HoldsErrorData(conversation.title)
    /\ ~HoldsErrorData(turn.generated_title)
    /\ \A i \in 1..Len(out) :
           out[i].event = "conversation_title_updated" => ~HoldsErrorData(out[i].data)

\* The names of the catalog generate_chat_response built for the turn.
Offered == {catalog.entries[i].name : i \in 1..Len(catalog.entries)}

\* C34: every function_call proposal persisted in a turn names a tool of the catalog
\* offered to the provider in that turn: none is persisted when tool calling is off,
\* none for a tool of a preconfigured server that is disabled for the user.
C34_ProposalsFromCatalog ==
    turn.pc \in {"tool_calls", "finish", "done"} =>
        /\ ~turn.tool_calling => ProposalsPersisted = <<>>
        /\ \A k \in 1..Len(ProposalsPersisted) :
               ProposalsPersisted[k].message.tool_use.name \in Offered

\* The ToolUse of message i has been approved or rejected.
StateDecided(msgs, i) ==
    /\ msgs[i].tool_use.present
    /\ msgs[i].tool_use.state \in {"approved", "rejected"}

\* C35: with the turns one after another, in every state of the conversation the
\* ToolUse of a function_call message that is the last message is neither approved
\* nor rejected; the state of a ToolUse is decided exactly when the
\* function_call_result message follows its message, and one step makes both.
C35_DecisionVisibleWithResult ==
    /\ []((messages # <<>> /\ messages[Len(messages)].role = "function_call") =>
              ~StateDecided(messages, Len(messages)))
    /\ [](\A i \in 1..Len(messages) :
              StateDecided(messages, i) <=>
                  /\ messages[i].role = "function_call"
                  /\ i < Len(messages)
                  /\ messages[i + 1].role = "function_call_result")
    /\ [][\A i \in 1..Len(messages) :
              (~StateDecided(messages, i) /\ StateDecided(messages', i)) =>
                  /\ i = Len(messages)
                  /\ Len(messages') = i + 1
                  /\ messages'[i + 1].role = "function_call_result"]_vars
    /\ [][(Len(messages') > Len(messages)
           /\ messages'[Len(messages')].role = "function_call_result") =>
              /\ Len(messages') = Len(messages) + 1
              /\ ~StateDecided(messages, Len(messages))
              /\ StateDecided(messages', Len(messages))]_vars

\* A rejected call with its result stored, and after them a new proposal of the
\* same turn as the last message, undecided.
C35_Witness ==
    /\ Decided
    /\ turn.tool_decision = "False"
    /\ messages[turn.base].tool_use.state = "rejected"
    /\ messages[Len(messages)].role = "function_call"
    /\ messages[Len(messages)].tool_use.state = "unset"

\* The function_call_result messages the conversation holds.
ResultsHeld == SelectSeq(messages, LAMBDA m : m.role = "function_call_result")

\* C36: when two turns with a tool decision run at the same time on a conversation
\* whose last message is an undecided function_call, the tool server is called at
\* most once for the ToolUse, at most one function_call_result message is
\* persisted for it, and its state in the end is the decision of the turn that
\* called the tool.
C36_ConcurrentDecisionsOnce ==
    /\ net.call_tool <= 1
    /\ Len(ResultsHeld) <= 1
    /\ \A r \in Reqs :
           (decisions[r].pc = "generate" /\ decisions[r].seen = Len(ProposedMessages)) =>
               messages[Len(ProposedMessages)].tool_use.state =
                   DecidedState(decisions[r].tool_decision)

\* Message i is a function_call message with a later message after it.
Superseded(msgs, i) ==
    /\ msgs[i].role = "function_call"
    /\ i < Len(msgs)

\* C37: with the turns one after another, a turn with a decision acts on the
\* ToolUse of the last message only: no step changes a function_call message that
\* has a later message after it, so its ToolUse keeps its state for good, and a
\* step that calls the tool server has a function_call as the last message and
\* decides no ToolUse but that one.
C37_OnlyLastProposalDecided ==
    /\ [][\A i \in 1..Len(messages) :
              Superseded(messages, i) =>
                  /\ Len(messages') >= Len(messages)
                  /\ messages'[i] = messages[i]]_vars
    /\ [][net'.sessions > net.sessions =>
              /\ turn.pc = "tool_decision"
              /\ messages[Len(messages)].role = "function_call"
              /\ \A i \in 1..Len(messages) :
                     messages'[i] # messages[i] => i = Len(messages)]_vars

\* Two proposals of one turn, and the turn after it with a decision: the second
\* proposal is approved and has its result, the first is as it was persisted.
C37_Witness ==
    /\ Len(messages) >= 4
    /\ turn.tool_decision = "True"
    /\ net.call_tool = 1
    /\ \E i \in 1..(Len(messages) - 2) :
           /\ messages[i].role = "function_call"
           /\ messages[i].tool_use.state = "unset"
           /\ messages[i + 1].role = "function_call"
           /\ messages[i + 1].tool_use.state = "approved"
           /\ messages[i + 2].role = "function_call_result"

\* The turn came with a tool decision to a conversation that was new or whose last
\* message was no function_call.
DecisionIgnored ==
    /\ turn.n > 0
    /\ turn.tool_decision # "None"
    /\ turn.http_status # "404"
    /\ turn.base = 0 \/ messages[turn.base].role # "function_call"

\* C38: in a turn that comes with a tool decision while the conversation is new or
\* its last message is no function_call, the decision does nothing: handle_tool_call
\* is passed by and the tool server is not contacted, no message the conversation
\* held is changed (no ToolUse gets a state), the turn persists no user message
\* and no function_call_result message, and the messages handed to the provider
\* are the stored ones as they were.
C38_StrayDecisionIgnored ==
    /\ [](DecisionIgnored =>
              /\ turn.pc # "tool_decision"
              /\ net = NoTraffic
              /\ \A i \in (turn.base + 1)..Len(messages) :
                     messages[i].role \notin {"user", "function_call_result"}
              /\ turn.formatted_messages = FormattedMessages(SubSeq(messages, 1, turn.base)))
    /\ [][DecisionIgnored' =>
              /\ Len(messages') >= Len(messages)
              /\ \A i \in 1..Len(messages) : messages'[i] = messages[i]]_vars

\* A turn with an approval on a conversation whose last message was an assistant
\* message: the turn went on to the provider, persisted what it brought and ended.
C38_Witness ==
    /\ DecisionIgnored
    /\ turn.tool_decision = "True"
    /\ turn.base > 0
    /\ messages[turn.base].role = "assistant"
    /\ turn.pc = "done"
    /\ gpc = "finished"
    /\ Len(messages) > turn.base

\* The last message proposes a private tool whose MCPTool row is no longer there.
ProposedToolRemoved ==
    /\ messages # <<>>
    /\ messages[Len(messages)].role = "function_call"
    /\ messages[Len(messages)].tool_use.present
    /\ ~is_preconfigured_call_code(messages[Len(messages)].tool_use.name)
    /\ {t \in mcp_tools : t.id = messages[Len(messages)].tool_use.tool} = {}

\* The turn with a decision raised on it, before a session was opened.
RaisedOnRemovedTool ==
    /\ ProposedToolRemoved
    /\ turn.pc = "raised"
    /\ turn.tool_decision # "None"
    /\ turn.base = Len(messages)
    /\ net.sessions = 0

\* C39: when the MCPTool row a proposed private call refers to was removed before
\* the decision (by a refresh of its server, which deletes the rows and adds new
\* ones), the turn with the decision raises in handle_tool_call with nothing
\* written and the tool server not contacted; the ToolUse stays pending and no
\* function_call_result message is persisted.
C39_RemovedToolRaisesFirst ==
    /\ [][(turn.pc = "tool_decision" /\ ProposedToolRemoved /\ turn' # turn) =>
              /\ turn'.pc = "raised"
              /\ messages' = messages
              /\ net' = net
              /\ net = NoTraffic]_vars
    /\ [](RaisedOnRemovedTool =>
              /\ net = NoTraffic
              /\ gpc = "idle"
              /\ messages[Len(messages)].tool_use.state = "pending"
              /\ \A i \in 1..Len(messages) : messages[i].role # "function_call_result")

\* The buffer holds a call with a name and no argument text.
NamedWithoutText ==
    /\ unfinished_call.open
    /\ unfinished_call.name # <<>>
    /\ unfinished_call.arguments = <<>>

\* The step flushes the buffer: a chunk that starts a call is read, or the stream
\* ends.
FlushStep ==
    /\ gpc = "reading"
    /\ \/ Len(calls') = Len(calls) + 1
       \/ stream_end' = "exhausted"

\* C40: a buffered call with a name and no argument text, when it is flushed by
\* the start of the next call or by the end of the stream, gives no function_call
\* event: json.loads of the empty text raises and the generator ends with the
\* exception.  So every function_call event is of a call that was sent some
\* argument text.
C40_NoTextNoEvent ==
    /\ [][(NamedWithoutText /\ FlushStep) =>
              /\ gpc' = "raised"
              /\ revents' = revents]_vars
    /\ [](/\ Len(FunctionCallEvents) <= Len(calls)
          /\ \A k \in 1..Len(FunctionCallEvents) : calls[k].text # <<>>)

\* The generator raised at the start of a second call, the first having a name
\* and no argument text; no function_call event was yielded.
C40_Witness ==
    /\ gpc = "raised"
    /\ NamedWithoutText
    /\ stream_end = "no"
    /\ Len(calls) = 2
    /\ calls[1].text = <<>>
    /\ FunctionCallEvents = <<>>

====
